---- MODULE Spec2Model ----
(***************************************************************************)
(* A model of the colony crate: Colony<T, G> (src/src/lib.rs), its guards  *)
(* (src/src/guard.rs), IndexOpt (src/src/index_opt.rs), the jump-counting  *)
(* skipfield (src/src/skipfield.rs) and RawIter (src/src/iter.rs).         *)
(*                                                                         *)
(* The model follows the release build, in which debug_assert! is compiled *)
(* out.  A debug build stops at a failing debug_assert!, so its behaviours *)
(* are prefixes of the ones modelled here.  Undefined behaviour (a write   *)
(* outside the allocation, a read of the wrong union arm or of a slot that *)
(* was never written) and the wrap of a slot counter are recorded in the   *)
(* colony's ghost field `ub`, and a panic in its ghost field `panicked`;   *)
(* the model takes no further step on such a colony.                       *)
(***************************************************************************)
EXTENDS Integers, Sequences, FiniteSets, TLC

VARIABLES
    guardKind,        \* the type parameter G of every colony of the run
    sizeOfT,          \* mem::size_of::<T>() of the element type of the run
    track,            \* ghost: whether the run may watch a handle (see `watched`)
    clears,           \* ghost: the number of clear() calls made so far
    colony,           \* colony[c]: the fields of colony c (struct Colony)
    NEXT_COLONY_ID,   \* the process-wide static of GenerationGuard::__new_id
    live,             \* ghost: live[c] = the (handle, value) pairs insert returned, not yet removed or cleared
    hist,             \* ghost: hist[c] = what the caller has done to colony c so far
    watched,          \* ghost: one handle that some insert returned, picked when it was returned, and whether it has died
    threads,          \* threads[t]: where thread t is inside __new_id and the value of the counter it read last
    issued,           \* ghost: the ids that calls of __new_id by the threads have returned, in the order of the exchanges
    field,            \* a skipfield on its own, as the tests of skipfield.rs hold it (Model.field): cells -1 .. size
    skipped           \* the indices of `field` that are skipped (Model.skipped)

vars == <<guardKind, sizeOfT, track, clears, colony, NEXT_COLONY_ID, live, hist, watched,
          threads, issued, field, skipped>>

(***************************************************************************)
(* Bounds of the model.                                                    *)
(***************************************************************************)
\* largest capacity a reserve of the model may produce
MaxCapacity == 2
\* element values are 1..MaxVal
MaxVal == 2
\* largest `additional` passed to reserve
MaxAdditional == 2
\* width of the slot counter inside a handle word (20 in the source), scaled
GENERATION_BITS == 2
\* width of the colony id inside a handle word (44 in the source), scaled
COLONY_ID_BITS == 3
\* number of clear() calls of a run
MaxClears == 1
\* number of colony ids the process has handed out before the run starts
MaxEarlierIds == 1
\* number of threads that call __new_id at the same time
MaxThreads == 2
\* number of indices of the skipfield that is exercised on its own
MaxField == 5
\* in a long skipfield, the number of indices at each end of its long run of
\* skipped indices, and at the start of the run, that are exercised
Window == 2
\* number of slots of the colony whose free list is exercised
MaxSlots == 3
\* width of usize, scaled (64 in the source)
USIZE_BITS == 8

Colonies == {1, 2}
Values == 1 .. MaxVal
GuardKinds == {"NoGuard", "FlagGuard", "GenerationGuard"}
\* element sizes of the run: larger than 1 KiB, so that MIN_NON_ZERO_CAP is 1
\* and every capacity up to MaxCapacity occurs
ElemSizes == {2048}

RECURSIVE Pow2(_)
Pow2(n) == IF n = 0 THEN 1 ELSE 2 * Pow2(n - 1)

Max(a, b) == IF a >= b THEN a ELSE b

\* bitwise or of two naturals (the `|` of Generation::new)
RECURSIVE BitOr(_, _)
BitOr(a, b) ==
    IF a = 0 THEN b
    ELSE IF b = 0 THEN a
    ELSE Max(a % 2, b % 2) + 2 * BitOr(a \div 2, b \div 2)

None == [some |-> FALSE]
Some(x) == [some |-> TRUE, value |-> x]

(***************************************************************************)
(* index_opt.rs                                                            *)
(***************************************************************************)
USIZE_MAX == Pow2(USIZE_BITS) - 1
THRESHOLD == USIZE_MAX

IndexOpt_none == THRESHOLD
IndexOpt_some(value) == value
IsSome(opt) == opt < THRESHOLD

(***************************************************************************)
(* skipfield.rs.  A skipfield is a function from cell index to byte; the   *)
(* pointer held by the colony is cell 0, the allocation starts at cell -1. *)
(***************************************************************************)
SkipfieldElement_MAX == 255
SIZE_OF_USIZE == 8
LEFT == -1
RIGHT == 1

\* address of cell `index` modulo the word alignment: the skipfield starts
\* one byte (the cell -1) after the slot array, whose size is a multiple of
\* the word size; a whole number of words is added to keep addresses positive
CellAddr(index) == 4 * SIZE_OF_USIZE + 1 + index

\* the index of the first cell overlaid by the spill word of cell `index`
spilled_addr(DIR, index) ==
    LET ptr_addr == CellAddr(index)
        max_addr == IF DIR = LEFT THEN ptr_addr - SIZE_OF_USIZE
                    ELSE ptr_addr + 1 + SIZE_OF_USIZE - 1
        new_addr == max_addr - (max_addr % SIZE_OF_USIZE)
    IN  index + (new_addr - ptr_addr)

\* the byte of cell `index`; a cell outside the allocation reads as 0
Cell(sf, index) == IF index \in DOMAIN sf THEN sf[index] ELSE 0

RECURSIVE ReadWord(_, _, _)
ReadWord(sf, at, n) ==
    IF n = 0 THEN 0
    ELSE Cell(sf, at) + 256 * ReadWord(sf, at + 1, n - 1)

RECURSIVE WriteWord(_, _, _, _)
WriteWord(sf, at, n, value) ==
    IF n = 0 THEN sf
    ELSE LET sf1 == IF at \in DOMAIN sf THEN [sf EXCEPT ![at] = value % 256] ELSE sf
         IN  WriteWord(sf1, at + 1, n - 1, value \div 256)

read(sf, DIR, index) ==
    IF Cell(sf, index) < SkipfieldElement_MAX
    THEN Cell(sf, index)
    ELSE ReadWord(sf, spilled_addr(DIR, index), SIZE_OF_USIZE)

\* mutant of write: a value too large for a cell leaves the escape byte
\* without its spill word
write_without_spill(sf, DIR, index, value) ==
    IF index \in DOMAIN sf
    THEN [sf EXCEPT ![index] = IF value < SkipfieldElement_MAX
                               THEN value ELSE SkipfieldElement_MAX]
    ELSE sf

write(sf, DIR, index, value) ==
    IF value < SkipfieldElement_MAX
    THEN IF index \in DOMAIN sf THEN [sf EXCEPT ![index] = value] ELSE sf
    ELSE LET sf1 == IF index \in DOMAIN sf
                    THEN [sf EXCEPT ![index] = SkipfieldElement_MAX] ELSE sf
         IN  WriteWord(sf1, spilled_addr(DIR, index), SIZE_OF_USIZE, value)

\* mutant of skip: the length is written at the start of the run only
skip_writes_start_only(sf, index) ==
    LET left == read(sf, LEFT, index - 1)
        right == read(sf, RIGHT, index + 1)
        size == left + right + 1
        start == index - left
        end == index + right
    IN  [sf |-> write(sf, RIGHT, start, size), start |-> start, end |-> end]

\* skip(index): the new skipfield and the (start, end) the code returns
skip(sf, index) ==
    LET left == read(sf, LEFT, index - 1)
        right == read(sf, RIGHT, index + 1)
        size == left + right + 1
        start == index - left
        end == index + right
        sf1 == write(sf, RIGHT, start, size)
        sf2 == write(sf1, LEFT, end, size)
    IN  [sf |-> sf2, start |-> start, end |-> end]

\* mutant of unskip_leftmost: the cell of the refilled slot is not zeroed
unskip_leftmost_keeps_cell(sf, index) ==
    LET old_size == read(sf, RIGHT, index)
        new_size == (old_size + USIZE_MAX) % (USIZE_MAX + 1)
    IN  IF new_size > 0
        THEN write(write(sf, RIGHT, index + 1, new_size),
                   LEFT, index + old_size - 1, new_size)
        ELSE sf

\* old_size - 1 is a usize subtraction: it wraps when old_size is 0
unskip_leftmost(sf, index) ==
    LET old_size == read(sf, RIGHT, index)
        sf1 == write(sf, RIGHT, index, 0)
        new_size == (old_size + USIZE_MAX) % (USIZE_MAX + 1)
    IN  IF new_size > 0
        THEN write(write(sf1, RIGHT, index + 1, new_size),
                   LEFT, index + old_size - 1, new_size)
        ELSE sf1

(***************************************************************************)
(* guard.rs.  G is the guard type: a NoGuard is the unit 0, a FlagGuard is *)
(* its `occupied` flag, a GenerationGuard is its `generation` counter.     *)
(* A colony id of NoGuard and FlagGuard is the unit, 0 in the model.       *)
(***************************************************************************)
MAX_COLONY_ID == Pow2(COLONY_ID_BITS) - 1
SENTINEL_COLONY_ID == 0
MAX_GENERATION == Pow2(GENERATION_BITS) - 1
\* the counter is a u32, wider than GENERATION_BITS; scaled with it
U32_BITS == GENERATION_BITS + 1

Generation_new(colony_id, generation) ==
    BitOr(colony_id * Pow2(GENERATION_BITS), generation)

Generation_generation(state) == state % Pow2(GENERATION_BITS)

Generation_colony_id(state) == state \div Pow2(GENERATION_BITS)

Guard__new(G) ==
    CASE G = "NoGuard" -> 0
      [] G = "FlagGuard" -> TRUE
      [] G = "GenerationGuard" -> 0

Guard__sentinel_id(G) == IF G = "GenerationGuard" THEN SENTINEL_COLONY_ID ELSE 0

Threads == 1 .. MaxThreads

\* mutant of new_id_update: the new value is not filtered
new_id_update_unfiltered(id) == Some(id + 1)

\* the closure __new_id gives to fetch_update: the value to store, if any
new_id_update(id) ==
    IF id + 1 <= MAX_COLONY_ID THEN Some(id + 1) ELSE None

\* fetch_update on NEXT_COLONY_ID: Ok(previous) when previous + 1 <= MAX_COLONY_ID
Guard__new_id(G, next_colony_id) ==
    IF G = "GenerationGuard"
    THEN IF next_colony_id + 1 <= MAX_COLONY_ID
         THEN [panic |-> FALSE, id |-> next_colony_id, next |-> next_colony_id + 1]
         ELSE [panic |-> TRUE, id |-> 0, next |-> next_colony_id]
    ELSE [panic |-> FALSE, id |-> 0, next |-> next_colony_id]

\* the debug_asserts of Generation::new
Generation_new_asserts(colony_id, generation) ==
    /\ colony_id # 0
    /\ colony_id <= MAX_COLONY_ID
    /\ generation <= MAX_GENERATION

Guard__new_handle(G, guard, index, colony_id) ==
    IF G = "GenerationGuard"
    THEN [index |-> index, generation |-> Generation_new(colony_id, guard)]
    ELSE index

Guard__extract_index(G, handle) ==
    IF G = "GenerationGuard" THEN handle.index ELSE handle

\* debug_assert!(self.generation % 2 == 0) of GenerationGuard::__new_handle
Guard__new_handle_assert(G, guard) == G = "GenerationGuard" => guard % 2 = 0

\* debug_assert!(self.generation % 2 == 1) of GenerationGuard::__fill
Guard__fill_assert(G, guard) == G = "GenerationGuard" => guard % 2 = 1

\* debug_assert!(self.generation % 2 == 0) of GenerationGuard::__empty
Guard__empty_assert(G, guard) == G = "GenerationGuard" => guard % 2 = 0

\* mutant of Guard__fill: a FlagGuard keeps the flag it had
Guard__fill_keeps_flag(G, guard) ==
    CASE G = "NoGuard" -> guard
      [] G = "FlagGuard" -> guard
      [] G = "GenerationGuard" -> (guard + 1) % Pow2(U32_BITS)

\* self.generation += 1 on a u32
Guard__fill(G, guard) ==
    CASE G = "NoGuard" -> guard
      [] G = "FlagGuard" -> TRUE
      [] G = "GenerationGuard" -> (guard + 1) % Pow2(U32_BITS)

\* the u32 addition of __fill wraps (it panics in a build with overflow
\* checks); the model records the wrap and stops the colony after it
Guard__fill_overflows(G, guard) ==
    G = "GenerationGuard" /\ guard + 1 >= Pow2(U32_BITS)

\* mutant of Guard__empty: the flag is not cleared and the counter not
\* incremented
Guard__empty_keeps_guard(G, guard) ==
    CASE G = "NoGuard" -> [guard |-> guard, reuse |-> TRUE]
      [] G = "FlagGuard" -> [guard |-> guard, reuse |-> TRUE]
      [] G = "GenerationGuard" -> [guard |-> guard, reuse |-> guard + 1 # MAX_GENERATION]

\* the guard after __empty and the reuse permission it returns
Guard__empty(G, guard) ==
    CASE G = "NoGuard" -> [guard |-> guard, reuse |-> TRUE]
      [] G = "FlagGuard" -> [guard |-> FALSE, reuse |-> TRUE]
      [] G = "GenerationGuard" ->
            LET g == (guard + 1) % Pow2(U32_BITS)
            IN  [guard |-> g, reuse |-> g # MAX_GENERATION]

\* mutant of Guard__check: the slot's flag or counter is not compared
Guard__check_ignores_guard(G, guard, handle, colony_id) ==
    IF G = "FlagGuard"
    THEN TRUE
    ELSE colony_id = Generation_colony_id(handle.generation)

\* CheckedGuard::__check (FlagGuard and GenerationGuard only)
Guard__check(G, guard, handle, colony_id) ==
    IF G = "FlagGuard"
    THEN guard
    ELSE /\ colony_id = Generation_colony_id(handle.generation)
         /\ guard = Generation_generation(handle.generation)

(***************************************************************************)
(* lib.rs: Slot.  The payload is a union: [occupied |-> value] or the      *)
(* free-list node [prev |-> .., next |-> ..].                              *)
(***************************************************************************)
IsOccupiedArm(slot) == "occupied" \in DOMAIN slot.inner

Slot_new_full(G, value) ==
    [guard |-> Guard__new(G), inner |-> [occupied |-> value]]

Slot_fill(G, slot, value) ==
    [guard |-> Guard__fill(G, slot.guard), inner |-> [occupied |-> value]]

Slot_empty(G, slot) ==
    LET e == Guard__empty(G, slot.guard)
    IN  [slot |-> [guard |-> e.guard,
                   inner |-> [prev |-> IndexOpt_none, next |-> IndexOpt_none]],
         value |-> slot.inner.occupied,
         reuse |-> e.reuse]

(***************************************************************************)
(* lib.rs: Colony.  A colony is a record of the struct's fields.           *)
(* `elements` is a function from the indices of the slots that have been   *)
(* written to their contents: the slots of [touched, capacity) are         *)
(* uninitialised memory and have no value.  `skipfield` is a function on   *)
(* [-1, capacity].                                                         *)
(***************************************************************************)
MAX_CAPACITY == Pow2(USIZE_BITS - 1) - 1

MIN_NON_ZERO_CAP(size_of_T) ==
    IF size_of_T = 1 THEN 8
    ELSE IF size_of_T <= 1024 THEN 4
    ELSE 1

EMPTY_SKIPFIELD == [i \in -1 .. 0 |-> 0]

NoElements == [i \in {} |-> 0]

Colony_default(G) ==
    [elements |-> NoElements,
     skipfield |-> EMPTY_SKIPFIELD,
     capacity |-> 0,
     touched |-> 0,
     len |-> 0,
     next_free |-> IndexOpt_none,
     id |-> Guard__sentinel_id(G),
     ub |-> {},
     panicked |-> FALSE]

MarkUB(col, what) == [col EXCEPT !.ub = @ \cup {what}]

\* slot(index).unoccupied() is defined when the slot holds a free-list node
IsNode(col, index) ==
    /\ index \in DOMAIN col.elements
    /\ ~IsOccupiedArm(col.elements[index])

unoccupied(col, index) ==
    IF IsNode(col, index) THEN col.elements[index].inner
    ELSE [prev |-> IndexOpt_none, next |-> IndexOpt_none]

CheckNode(col, index) ==
    IF IsNode(col, index) THEN col ELSE MarkUB(col, "unoccupied")

SetPrev(col, index, v) ==
    IF IsNode(col, index) THEN [col EXCEPT !.elements[index].inner.prev = v]
    ELSE MarkUB(col, "unoccupied")

SetNext(col, index, v) ==
    IF IsNode(col, index) THEN [col EXCEPT !.elements[index].inner.next = v]
    ELSE MarkUB(col, "unoccupied")

SetNode(col, index, node) ==
    IF IsNode(col, index) THEN [col EXCEPT !.elements[index].inner = node]
    ELSE MarkUB(col, "unoccupied")

\* mutant of remove_skipblock_from_skiplist: next_free is not moved when the
\* block is the first of the list
remove_skipblock_from_skiplist_keeps_head(col, start, end) ==
    LET prev == unoccupied(col, start).prev
        next == unoccupied(col, end).next
        c0 == CheckNode(CheckNode(col, start), end)
        c1 == IF IsSome(prev) THEN SetNext(c0, prev, next) ELSE c0
    IN  IF IsSome(next) THEN SetPrev(c1, next, prev) ELSE c1

remove_skipblock_from_skiplist(col, start, end) ==
    LET prev == unoccupied(col, start).prev
        next == unoccupied(col, end).next
        c0 == CheckNode(CheckNode(col, start), end)
        c1 == IF IsSome(prev) THEN SetNext(c0, prev, next)
              ELSE [c0 EXCEPT !.next_free = next]
    IN  IF IsSome(next) THEN SetPrev(c1, next, prev) ELSE c1

\* mutant of add_skipblock_to_skiplist: the old head's prev is left as it was
add_skipblock_to_skiplist_no_back_link(col, start, end) ==
    LET c1 == SetPrev(col, start, IndexOpt_none)
        c2 == SetNext(c1, end, c1.next_free)
    IN  [c2 EXCEPT !.next_free = IndexOpt_some(start)]

add_skipblock_to_skiplist(col, start, end) ==
    LET c1 == SetPrev(col, start, IndexOpt_none)
        c2 == SetNext(c1, end, c1.next_free)
        c3 == IF IsSome(c2.next_free)
              THEN SetPrev(c2, c2.next_free, IndexOpt_some(end))
              ELSE c2
    IN  [c3 EXCEPT !.next_free = IndexOpt_some(start)]

stitch_no_left_no_right(col, index) ==
    add_skipblock_to_skiplist(col, index, index)

\* mutant of stitch_only_left: the slot joins the skipblock on its left without
\* being linked, the free list keeping the head of the skipblock only
stitch_only_left_unlinked(col, index) ==
    SetNode(col, index, [prev |-> IndexOpt_none, next |-> IndexOpt_none])

stitch_only_left(col, index) ==
    LET next == unoccupied(col, index - 1).next
        c1 == SetNext(col, index - 1, IndexOpt_some(index))
        c2 == IF IsSome(next) THEN SetPrev(c1, next, IndexOpt_some(index)) ELSE c1
    IN  SetNode(c2, index, [prev |-> IndexOpt_some(index - 1), next |-> next])

\* mutant of stitch_only_right: the slot is linked behind its right neighbour,
\* as stitch_only_left links it behind its left one
stitch_only_right_behind(col, index) ==
    LET next == unoccupied(col, index + 1).next
        c1 == SetNext(col, index + 1, IndexOpt_some(index))
        c2 == IF IsSome(next) THEN SetPrev(c1, next, IndexOpt_some(index)) ELSE c1
    IN  SetNode(c2, index, [prev |-> IndexOpt_some(index + 1), next |-> next])

stitch_only_right(col, index) ==
    LET prev == unoccupied(col, index + 1).prev
        c1 == SetPrev(col, index + 1, IndexOpt_some(index))
        c2 == IF IsSome(prev) THEN SetNext(c1, prev, IndexOpt_some(index))
              ELSE [c1 EXCEPT !.next_free = IndexOpt_some(index)]
    IN  SetNode(c2, index, [prev |-> prev, next |-> IndexOpt_some(index + 1)])

stitch_left_and_right(col, index, start, end) ==
    LET c1 == remove_skipblock_from_skiplist(col, start, index - 1)
        c2 == remove_skipblock_from_skiplist(c1, index + 1, end)
        c3 == add_skipblock_to_skiplist(c2, start, end)
        c4 == SetNext(c3, index - 1, IndexOpt_some(index))
        c5 == SetPrev(c4, index + 1, IndexOpt_some(index))
    IN  SetNode(c5, index, [prev |-> IndexOpt_some(index - 1),
                            next |-> IndexOpt_some(index + 1)])

\* the `if reuse { match (has_left, has_right) { .. } }` of remove_unchecked
stitch(col, index, start, end, reuse) ==
    IF ~reuse THEN col
    ELSE IF start = index /\ end = index THEN stitch_no_left_no_right(col, index)
    ELSE IF start # index /\ end = index THEN stitch_only_left(col, index)
    ELSE IF start = index /\ end # index THEN stitch_only_right(col, index)
    ELSE stitch_left_and_right(col, index, start, end)

\* remove_unchecked from `let (start, end) = self.skipfield().skip(index)` on:
\* s is what skip returned, e what Slot::empty returned
\* mutant of remove_unchecked's tail: len is not decremented
skip_and_stitch_keeps_len(col, index, s, e) ==
    [col |-> stitch([col EXCEPT !.skipfield = s.sf], index, s.start, s.end, e.reuse),
     ret |-> e.value]

skip_and_stitch(col, index, s, e) ==
    [col |-> [stitch([col EXCEPT !.skipfield = s.sf], index, s.start, s.end, e.reuse)
                 EXCEPT !.len = (@ + USIZE_MAX) % (USIZE_MAX + 1)],
     ret |-> e.value]

\* slot.empty() at index: the colony with the emptied slot
emptied(G, col, index) ==
    [col EXCEPT !.elements[index] = Slot_empty(G, col.elements[index]).slot]

\* remove_unchecked(index) on a slot that holds an element (the caller's
\* obligation): the colony afterwards and the value returned
remove_unchecked_occupied(G, col, index) ==
    skip_and_stitch(emptied(G, col, index), index,
                    skip(col.skipfield, index),
                    Slot_empty(G, col.elements[index]))

\* taking the value out of a slot that holds none is undefined behaviour
remove_unchecked(G, col, index) ==
    IF index \in DOMAIN col.elements /\ IsOccupiedArm(col.elements[index])
    THEN remove_unchecked_occupied(G, col, index)
    ELSE [col |-> MarkUB(col, "occupied"), ret |-> 0]

\* get(handle): None, or Some(the value); `ub` when the slot that passed the
\* check holds no element
get(G, col, handle) ==
    LET index == Guard__extract_index(G, handle)
    IN  IF index >= col.touched THEN [ret |-> None, ub |-> FALSE]
        ELSE IF index \notin DOMAIN col.elements THEN [ret |-> None, ub |-> TRUE]
        ELSE IF ~Guard__check(G, col.elements[index].guard, handle, col.id)
             THEN [ret |-> None, ub |-> FALSE]
        ELSE IF IsOccupiedArm(col.elements[index])
             THEN [ret |-> Some(col.elements[index].inner.occupied), ub |-> FALSE]
        ELSE [ret |-> Some(0), ub |-> TRUE]

\* Some(self.remove_unchecked(index))
Taken(r) == [col |-> r.col, ret |-> Some(r.ret)]

\* remove(handle): the colony afterwards and the Option returned
remove(G, col, handle) ==
    LET index == Guard__extract_index(G, handle)
    IN  IF index >= col.touched THEN [col |-> col, ret |-> None]
        ELSE IF index \notin DOMAIN col.elements
             THEN [col |-> MarkUB(col, "uninit"), ret |-> None]
        ELSE IF ~Guard__check(G, col.elements[index].guard, handle, col.id)
             THEN [col |-> col, ret |-> None]
        ELSE Taken(remove_unchecked(G, col, index))

\* mutant of do_reserve: the capacity is not doubled
do_reserve_no_doubling(G, size_of_T, col, next_colony_id, additional) ==
    LET sum == col.len + additional
        new_id == Guard__new_id(G, next_colony_id)
        cap2 == Max(sum, MIN_NON_ZERO_CAP(size_of_T))
        c1 == [col EXCEPT
                 !.skipfield = [i \in -1 .. cap2 |->
                                   IF i <= col.touched THEN Cell(col.skipfield, i) ELSE 0],
                 !.capacity = cap2]
    IN  IF sum > USIZE_MAX \/ ~(sum < MAX_CAPACITY)
        THEN [col |-> [col EXCEPT !.panicked = TRUE], next |-> next_colony_id,
              panic |-> "capacity overflow"]
        ELSE IF col.capacity = 0 /\ new_id.panic
        THEN [col |-> [col EXCEPT !.panicked = TRUE], next |-> next_colony_id,
              panic |-> "colony ids"]
        ELSE IF col.capacity = 0
        THEN [col |-> [c1 EXCEPT !.id = new_id.id], next |-> new_id.next, panic |-> ""]
        ELSE [col |-> c1, next |-> next_colony_id, panic |-> ""]

\* mutant of resize: copy_skipfield copies the cells of [-1, len) only
resize_copies_len_cells(col, new_cap) ==
    [col EXCEPT
        !.skipfield = [i \in -1 .. new_cap |->
                          IF i < col.len THEN Cell(col.skipfield, i) ELSE 0],
        !.capacity = new_cap]

\* resize(new_cap): copy_memory moves the touched slots, copy_skipfield the
\* cells [-1, touched] and zeroes the cells after them.  The layout and the
\* allocation succeed: the capacities of a run are far below the isize::MAX
\* bytes at which Layout::array fails
resize(col, new_cap) ==
    [col EXCEPT
        !.skipfield = [i \in -1 .. new_cap |->
                          IF i <= col.touched THEN Cell(col.skipfield, i) ELSE 0],
        !.capacity = new_cap]

\* do_reserve(additional): `panic` is "capacity overflow", "colony ids" or ""
do_reserve(G, size_of_T, col, next_colony_id, additional) ==
    LET sum == col.len + additional
        new_id == Guard__new_id(G, next_colony_id)
        cap1 == Max(sum, (col.capacity * 2) % (USIZE_MAX + 1))
        cap2 == Max(cap1, MIN_NON_ZERO_CAP(size_of_T))
        c1 == resize(col, cap2)
    IN  IF sum > USIZE_MAX \/ ~(sum < MAX_CAPACITY)
        THEN [col |-> [col EXCEPT !.panicked = TRUE], next |-> next_colony_id,
              panic |-> "capacity overflow"]
        ELSE IF col.capacity = 0 /\ new_id.panic
        THEN [col |-> [col EXCEPT !.panicked = TRUE], next |-> next_colony_id,
              panic |-> "colony ids"]
        ELSE IF col.capacity = 0
        THEN [col |-> [c1 EXCEPT !.id = new_id.id], next |-> new_id.next, panic |-> ""]
        ELSE [col |-> c1, next |-> next_colony_id, panic |-> ""]

\* mutant of reserve: it also grows when additional equals capacity - len
reserve_grows_when_equal(G, size_of_T, col, next_colony_id, additional) ==
    IF additional >= (col.capacity - col.len + USIZE_MAX + 1) % (USIZE_MAX + 1)
    THEN do_reserve(G, size_of_T, col, next_colony_id, additional)
    ELSE [col |-> col, next |-> next_colony_id, panic |-> ""]

\* capacity - len is a usize subtraction
reserve(G, size_of_T, col, next_colony_id, additional) ==
    IF additional > (col.capacity - col.len + USIZE_MAX + 1) % (USIZE_MAX + 1)
    THEN do_reserve(G, size_of_T, col, next_colony_id, additional)
    ELSE [col |-> col, next |-> next_colony_id, panic |-> ""]

\* insert_into_free from `self.len += 1` on: the slot at `free` is filled and
\* its handle made
fill_free(G, col, free, value) ==
    IF free \in DOMAIN col.elements
    THEN [col |-> [(IF Guard__fill_overflows(G, col.elements[free].guard)
                    THEN MarkUB(col, "u32 overflow") ELSE col)
                      EXCEPT !.len = @ + 1,
                             !.elements[free] = Slot_fill(G, @, value)],
          handle |-> Guard__new_handle(G, Guard__fill(G, col.elements[free].guard),
                                       free, col.id)]
    ELSE [col |-> MarkUB([col EXCEPT !.len = @ + 1], "uninit"),
          handle |-> Guard__new_handle(G, Guard__new(G), free, col.id)]

\* mutant of insert_into_free: len is not incremented
insert_into_free_keeps_len(G, col, free, value) ==
    [fill_free(G,
               remove_skipblock_from_skiplist(
                   [col EXCEPT !.skipfield = unskip_leftmost(col.skipfield, free)],
                   free, free),
               free, value)
        EXCEPT !.col.len = @ - 1]

\* the colony afterwards and the handle returned
insert_into_free(G, col, free, value) ==
    fill_free(G,
              remove_skipblock_from_skiplist(
                  [col EXCEPT !.skipfield = unskip_leftmost(col.skipfield, free)],
                  free, free),
              free, value)

\* mutant of insert_at_end_unchecked: the handle is made after touched is
\* incremented
insert_at_end_unchecked_late_handle(G, col, value) ==
    LET slot == Slot_new_full(G, value)
        handle == Guard__new_handle(G, slot.guard, col.touched + 1, col.id)
        c1 == IF col.touched < col.capacity THEN col ELSE MarkUB(col, "out of bounds")
        c2 == [c1 EXCEPT
                 !.elements = [i \in DOMAIN col.elements \cup {col.touched} |->
                                  IF i = col.touched THEN slot ELSE col.elements[i]],
                 !.touched = @ + 1,
                 !.len = @ + 1]
    IN  [col |-> c2, handle |-> handle]

\* the write at `touched` is outside the allocation when touched >= capacity
insert_at_end_unchecked(G, col, value) ==
    LET slot == Slot_new_full(G, value)
        handle == Guard__new_handle(G, slot.guard, col.touched, col.id)
        c1 == IF col.touched < col.capacity THEN col ELSE MarkUB(col, "out of bounds")
        c2 == [c1 EXCEPT
                 !.elements = [i \in DOMAIN col.elements \cup {col.touched} |->
                                  IF i = col.touched THEN slot ELSE col.elements[i]],
                 !.touched = @ + 1,
                 !.len = @ + 1]
    IN  [col |-> c2, handle |-> handle]

\* what insert returns to the model: i is the colony and the handle of an
\* insert_into_free or insert_at_end_unchecked, `next` the static afterwards
Inserted(i, next) ==
    [col |-> i.col, next |-> next, panic |-> "", handle |-> i.handle]

\* insert_at_end after its `if self.len == self.capacity { self.reserve(1) }`,
\* r being the outcome of the reserve
insert_at_end_reserved(G, r, value) ==
    IF r.panic # ""
    THEN [col |-> r.col, next |-> r.next, panic |-> r.panic, handle |-> 0]
    ELSE Inserted(insert_at_end_unchecked(G, r.col, value), r.next)

insert_at_end(G, size_of_T, col, next_colony_id, value) ==
    insert_at_end_reserved(G,
        IF col.len = col.capacity
        THEN reserve(G, size_of_T, col, next_colony_id, 1)
        ELSE [col |-> col, next |-> next_colony_id, panic |-> ""],
        value)

insert(G, size_of_T, col, next_colony_id, value) ==
    IF IsSome(col.next_free)
    THEN Inserted(insert_into_free(G, col, col.next_free, value), next_colony_id)
    ELSE insert_at_end(G, size_of_T, col, next_colony_id, value)

\* mutant of clear: the skipfield is not zeroed
clear_keeps_skipfield(G, col, next_colony_id) ==
    LET new_id == Guard__new_id(G, next_colony_id)
    IN  IF new_id.panic
        THEN [col |-> [col EXCEPT !.panicked = TRUE], next |-> next_colony_id,
              panic |-> "colony ids"]
        ELSE [col |-> [col EXCEPT !.id = new_id.id, !.len = 0, !.touched = 0,
                                  !.next_free = IndexOpt_none,
                                  !.elements = NoElements],
              next |-> new_id.next, panic |-> ""]

\* mutant of clear: the capacity is reset as well, as `*self = Colony::default()`
\* would
clear_resets_capacity(G, col, next_colony_id) ==
    LET c1 == [col EXCEPT !.skipfield =
                  [i \in DOMAIN col.skipfield |->
                      IF 0 <= i /\ i < col.touched THEN 0 ELSE col.skipfield[i]]]
        new_id == Guard__new_id(G, next_colony_id)
    IN  IF new_id.panic
        THEN [col |-> [c1 EXCEPT !.panicked = TRUE], next |-> next_colony_id,
              panic |-> "colony ids"]
        ELSE [col |-> [c1 EXCEPT !.id = new_id.id, !.len = 0, !.touched = 0,
                                 !.next_free = IndexOpt_none,
                                 !.elements = NoElements,
                                 !.capacity = 0],
              next |-> new_id.next, panic |-> ""]

\* clear() for an element type without a destructor: the skipfield is zeroed
\* before the new id is requested, the other fields after it
clear(G, col, next_colony_id) ==
    LET c1 == [col EXCEPT !.skipfield =
                  [i \in DOMAIN col.skipfield |->
                      IF 0 <= i /\ i < col.touched THEN 0 ELSE col.skipfield[i]]]
        new_id == Guard__new_id(G, next_colony_id)
    IN  IF new_id.panic
        THEN [col |-> [c1 EXCEPT !.panicked = TRUE], next |-> next_colony_id,
              panic |-> "colony ids"]
        ELSE [col |-> [c1 EXCEPT !.id = new_id.id, !.len = 0, !.touched = 0,
                                 !.next_free = IndexOpt_none,
                                 !.elements = NoElements],
              next |-> new_id.next, panic |-> ""]

(***************************************************************************)
(* iter.rs: RawIter.  IterFrom is the sequence of [index, value] that the  *)
(* remaining calls of next() return from the iterator state (index, len).  *)
(* An iterator that reaches a slot holding no element yields index -1.     *)
(***************************************************************************)
RECURSIVE IterFrom(_, _, _)
IterFrom(col, current_index, len) ==
    IF len = 0 THEN << >>
    ELSE LET offset == read(col.skipfield, RIGHT, current_index)
             index == current_index + offset
         IN  IF index \in DOMAIN col.elements /\ IsOccupiedArm(col.elements[index])
             THEN << [index |-> index, value |-> col.elements[index].inner.occupied] >>
                  \o IterFrom(col, index + 1, len - 1)
             ELSE << [index |-> -1, value |-> 0] >>

Iterate(col) == IterFrom(col, 0, col.len)

\* RawIter as a value: the two pointers are current_index into the colony
RawIter_new(col) == [current_index |-> 0, len |-> col.len]

RawIter_size_hint(it) == <<it.len, Some(it.len)>>

\* Guard::new_handle, which RawIter::next calls and guard.rs does not define
\* (it defines __new_handle with a colony id): the handle is made from the
\* slot's guard and the id of the colony
Guard_new_handle(G, guard, index, colony_id) ==
    Guard__new_handle(G, guard, index, colony_id)

\* mutant of RawIter_next: len is not decremented
RawIter_next_keeps_len(G, col, it) ==
    IF it.len = 0 THEN [it |-> it, ret |-> None, ub |-> FALSE]
    ELSE LET offset == read(col.skipfield, RIGHT, it.current_index)
             index == it.current_index + offset
             written == index \in DOMAIN col.elements
         IN  [it |-> [current_index |-> index + 1, len |-> it.len],
              ret |-> Some([handle |-> Guard_new_handle(G,
                                          IF written THEN col.elements[index].guard
                                          ELSE Guard__new(G),
                                          index, col.id),
                            value |-> IF written /\ IsOccupiedArm(col.elements[index])
                                      THEN col.elements[index].inner.occupied ELSE 0]),
              ub |-> ~(written /\ IsOccupiedArm(col.elements[index]))]

\* RawIter::next: the iterator afterwards and the item returned.  `ub` says
\* that the slot it stopped at holds no element (its guard and its payload
\* are then whatever the memory holds; the model shows a new guard and 0)
RawIter_next(G, col, it) ==
    IF it.len = 0 THEN [it |-> it, ret |-> None, ub |-> FALSE]
    ELSE LET offset == read(col.skipfield, RIGHT, it.current_index)
             index == it.current_index + offset
             written == index \in DOMAIN col.elements
         IN  [it |-> [current_index |-> index + 1, len |-> it.len - 1],
              ret |-> Some([handle |-> Guard_new_handle(G,
                                          IF written THEN col.elements[index].guard
                                          ELSE Guard__new(G),
                                          index, col.id),
                            value |-> IF written /\ IsOccupiedArm(col.elements[index])
                                      THEN col.elements[index].inner.occupied ELSE 0]),
              ub |-> ~(written /\ IsOccupiedArm(col.elements[index]))]

\* `calls` calls of next() in a row: for each the size_hint before it, the
\* item it returned and whether it read a slot that holds no element
RECURSIVE RawIter_calls(_, _, _, _)
RawIter_calls(G, col, it, calls) ==
    IF calls = 0 THEN << >>
    ELSE LET n == RawIter_next(G, col, it)
         IN  << [hint |-> RawIter_size_hint(it), ret |-> n.ret, ub |-> n.ub] >>
                 \o RawIter_calls(G, col, n.it, calls - 1)

(***************************************************************************)
(* Destructors.  clear() and Drop run ptr::drop_in_place on every value    *)
(* that values_mut() yields; the operators below give the slots on which   *)
(* the destructor is run, in order.                                        *)
(***************************************************************************)
\* values_mut(): the slots of the values yielded, and whether the slot
\* holds no element
values_mut(G, col) ==
    LET out == RawIter_calls(G, col, RawIter_new(col), col.len)
    IN  [k \in 1 .. col.len |->
            [index |-> Guard__extract_index(G, out[k].ret.value.handle),
             ub |-> out[k].ub]]

\* clear() for an element type that may have a destructor.  panic_at = k > 0:
\* the destructor of the k-th value panics, and clear() is left by unwinding
\* with no field written; panic_at = 0: no destructor panics
clear_dropping(G, col, next_colony_id, needs_drop, panic_at) ==
    IF needs_drop /\ panic_at \in 1 .. col.len
    THEN [col |-> col, next |-> next_colony_id, panic |-> "destructor",
          drops |-> SubSeq(values_mut(G, col), 1, panic_at)]
    ELSE LET r == clear(G, col, next_colony_id)
         IN  [col |-> r.col, next |-> r.next, panic |-> r.panic,
              drops |-> IF needs_drop THEN values_mut(G, col) ELSE << >>]

\* Drop for Colony: the slots whose value is destroyed before the buffer is
\* deallocated
Colony_drop(G, col, needs_drop) ==
    IF needs_drop THEN values_mut(G, col) ELSE << >>

(***************************************************************************)
(* Extend, FromIterator and Clone.  The iterator given to extend is a      *)
(* sequence of values; `exact` says whether its size_hint reports the      *)
(* number of values left (as a Vec's or a colony's iterator does) or 0.    *)
(***************************************************************************)
\* mutant of extend_at_end: each value is written at touched without a
\* reserve
RECURSIVE extend_at_end_no_reserve(_, _, _, _, _, _)
extend_at_end_no_reserve(G, size_of_T, col, next_colony_id, values, exact) ==
    IF values = << >> THEN [col |-> col, next |-> next_colony_id, panic |-> ""]
    ELSE extend_at_end_no_reserve(G, size_of_T,
                                  insert_at_end_unchecked(G, col, Head(values)).col,
                                  next_colony_id, Tail(values), exact)

\* the second loop of extend: each value is appended at touched, after a
\* reserve(lower + 1) when the colony is full
RECURSIVE extend_at_end(_, _, _, _, _, _)
extend_at_end(G, size_of_T, col, next_colony_id, values, exact) ==
    IF values = << >> THEN [col |-> col, next |-> next_colony_id, panic |-> ""]
    ELSE LET lower == IF exact THEN Len(values) - 1 ELSE 0
             r == IF col.len = col.capacity
                  THEN reserve(G, size_of_T, col, next_colony_id, lower + 1)
                  ELSE [col |-> col, next |-> next_colony_id, panic |-> ""]
         IN  IF r.panic # "" THEN r
             ELSE extend_at_end(G, size_of_T,
                                insert_at_end_unchecked(G, r.col, Head(values)).col,
                                r.next, Tail(values), exact)

\* extend: the first loop fills the slots of the free list, the second
\* appends
RECURSIVE extend(_, _, _, _, _, _)
extend(G, size_of_T, col, next_colony_id, values, exact) ==
    IF IsSome(col.next_free)
    THEN IF values = << >>
         THEN [col |-> col, next |-> next_colony_id, panic |-> ""]
         ELSE extend(G, size_of_T,
                     insert_into_free(G, col, col.next_free, Head(values)).col,
                     next_colony_id, Tail(values), exact)
    ELSE extend_at_end(G, size_of_T, col, next_colony_id, values, exact)

\* debug_assert!(self.len < self.touched) of insert_into_free
insert_into_free_assert(col) == col.len < col.touched

\* debug_assert!(self.len == self.touched) of insert_at_end_unchecked
insert_at_end_unchecked_assert(col) == col.len = col.touched

\* the assertion that insert reaches holds: that of insert_into_free when
\* next_free is some slot, else that of insert_at_end_unchecked, which runs
\* after a reserve that changes neither len nor touched
insert_asserts(col) ==
    IF IsSome(col.next_free) THEN insert_into_free_assert(col)
    ELSE insert_at_end_unchecked_assert(col)

\* every assertion that the second loop of extend reaches holds
RECURSIVE extend_at_end_asserts(_, _, _, _, _, _)
extend_at_end_asserts(G, size_of_T, col, next_colony_id, values, exact) ==
    IF values = << >> THEN TRUE
    ELSE LET lower == IF exact THEN Len(values) - 1 ELSE 0
             r == IF col.len = col.capacity
                  THEN reserve(G, size_of_T, col, next_colony_id, lower + 1)
                  ELSE [col |-> col, next |-> next_colony_id, panic |-> ""]
         IN  IF r.panic # "" THEN TRUE
             ELSE /\ insert_at_end_unchecked_assert(r.col)
                  /\ extend_at_end_asserts(G, size_of_T,
                         insert_at_end_unchecked(G, r.col, Head(values)).col,
                         r.next, Tail(values), exact)

\* every assertion that extend reaches holds
RECURSIVE extend_asserts(_, _, _, _, _, _)
extend_asserts(G, size_of_T, col, next_colony_id, values, exact) ==
    IF IsSome(col.next_free)
    THEN IF values = << >> THEN TRUE
         ELSE /\ insert_into_free_assert(col)
              /\ extend_asserts(G, size_of_T,
                     insert_into_free(G, col, col.next_free, Head(values)).col,
                     next_colony_id, Tail(values), exact)
    ELSE extend_at_end_asserts(G, size_of_T, col, next_colony_id, values, exact)

\* values(): the values yielded, and whether the slot read holds no element
Colony_values(G, col) ==
    LET out == RawIter_calls(G, col, RawIter_new(col), col.len)
    IN  [k \in 1 .. col.len |-> [value |-> out[k].ret.value.value, ub |-> out[k].ub]]

\* from_iter: extend on Colony::default()
from_iter(G, size_of_T, next_colony_id, vals, exact) ==
    extend(G, size_of_T, Colony_default(G), next_colony_id, vals, exact)

\* clone(): from_iter(self.values().cloned()); `ub` when values() reads a
\* slot that holds no element
clone(G, size_of_T, col, next_colony_id) ==
    LET vs == Colony_values(G, col)
        r == from_iter(G, size_of_T, next_colony_id,
                       [k \in 1 .. Len(vs) |-> vs[k].value], TRUE)
    IN  [col |-> r.col, next |-> r.next, panic |-> r.panic,
         ub |-> \E k \in 1 .. Len(vs) : vs[k].ub]

(***************************************************************************)
(* The state machine.  One action per public operation of Colony.          *)
(***************************************************************************)
Handles(pairs) == {p[1] : p \in pairs}

\* the largest capacity of a run: MaxCapacity times the smallest capacity an
\* allocation of the run's element type has
CapacityBound == MaxCapacity * MIN_NON_ZERO_CAP(sizeOfT)

Halted(c) == colony[c].ub # {} \/ colony[c].panicked

\* the handles the Remove action is given: the live handles of every colony
\* and the watched handle
RemoveInputs ==
    UNION {Handles(live[c]) : c \in Colonies}
        \cup (IF watched.some THEN {watched.value.handle} ELSE {})

\* what the caller has done to a colony: `balance` counts the inserts minus
\* the removals that returned an element since construction or the last
\* clear, `removed` says whether an element was ever removed or cleared,
\* `retired` whether a removal ever retired a slot
NoHist == [balance |-> 0, removed |-> FALSE, retired |-> FALSE]

\* the removal of the element at index retires its slot: __empty returns false
Retires(G, col, index) == ~Guard__empty(G, col.elements[index].guard).reuse

InitWith(kinds, sizes, trk, firstIds) ==
    /\ guardKind \in kinds
    /\ sizeOfT \in sizes
    /\ track = trk
    /\ clears = 0
    /\ colony = [c \in Colonies |-> Colony_default(guardKind)]
    /\ NEXT_COLONY_ID \in firstIds
    /\ live = [c \in Colonies |-> {}]
    /\ hist = [c \in Colonies |-> NoHist]
    /\ watched = None
    /\ threads = [t \in Threads |-> [pc |-> "idle", prev |-> SENTINEL_COLONY_ID + 1]]
    /\ issued = << >>
    /\ field = [i \in -1 .. 0 |-> 0]
    /\ skipped = {}

\* the watched handle dies when its element is removed or cleared: `dead`
\* becomes "removed" or "cleared"
Dies(c, gone, how) ==
    IF watched.some /\ watched.value.c = c /\ watched.value.handle \in gone
    THEN Some([watched.value EXCEPT !.dead = how])
    ELSE watched

\* insert(v); `watch` says whether the run starts watching the handle returned
Insert(c, v, watch) ==
    /\ ~Halted(c)
    /\ watch => (track /\ ~watched.some)
    /\ \E r \in {insert(guardKind, sizeOfT, colony[c], NEXT_COLONY_ID, v)} :
        /\ r.col.capacity <= CapacityBound
        /\ watch => r.panic = ""
        /\ colony' = [colony EXCEPT ![c] = r.col]
        /\ NEXT_COLONY_ID' = r.next
        /\ live' = IF r.panic = "" THEN [live EXCEPT ![c] = @ \cup {<<r.handle, v>>}]
                   ELSE live
        /\ hist' = IF r.panic = "" THEN [hist EXCEPT ![c].balance = @ + 1]
                   ELSE hist
        /\ watched' = IF watch
                      THEN Some([c |-> c, handle |-> r.handle, value |-> v,
                                 epoch |-> clears, dead |-> ""])
                      ELSE watched
        /\ UNCHANGED <<guardKind, sizeOfT, track, clears, threads, issued, field, skipped>>

\* remove(handle) of a CheckedGuard colony
Remove(c, h) ==
    /\ ~Halted(c)
    /\ guardKind # "NoGuard"
    /\ \E r \in {remove(guardKind, colony[c], h)} :
        /\ colony' = [colony EXCEPT ![c] = r.col]
        /\ live' = IF r.ret.some THEN [live EXCEPT ![c] = {p \in @ : p[1] # h}]
                   ELSE live
        /\ hist' = IF r.ret.some
                   THEN [hist EXCEPT ![c] =
                           [balance |-> @.balance - 1, removed |-> TRUE,
                            retired |-> @.retired \/
                               Retires(guardKind, colony[c],
                                       Guard__extract_index(guardKind, h))]]
                   ELSE hist
        /\ watched' = IF r.ret.some THEN Dies(c, {h}, "removed") ELSE watched
        /\ UNCHANGED <<guardKind, sizeOfT, track, clears, NEXT_COLONY_ID, threads, issued, field, skipped>>

\* remove_unchecked(index); the caller guarantees an element at index
RemoveUnchecked(c, index) ==
    LET r == remove_unchecked(guardKind, colony[c], index)
        gone == {p \in live[c] : Guard__extract_index(guardKind, p[1]) = index}
    IN  /\ ~Halted(c)
        /\ index \in DOMAIN colony[c].elements
        /\ IsOccupiedArm(colony[c].elements[index])
        /\ colony' = [colony EXCEPT ![c] = r.col]
        /\ live' = [live EXCEPT ![c] = @ \ gone]
        /\ hist' = [hist EXCEPT ![c] =
                      [balance |-> @.balance - 1, removed |-> TRUE,
                       retired |-> @.retired \/ Retires(guardKind, colony[c], index)]]
        /\ watched' = Dies(c, Handles(gone), "removed")
        /\ UNCHANGED <<guardKind, sizeOfT, track, clears, NEXT_COLONY_ID, threads, issued, field, skipped>>

Reserve(c, additional) ==
    /\ ~Halted(c)
    /\ \E r \in {reserve(guardKind, sizeOfT, colony[c], NEXT_COLONY_ID, additional)} :
        /\ r.col.capacity <= CapacityBound
        /\ colony' = [colony EXCEPT ![c] = r.col]
        /\ NEXT_COLONY_ID' = r.next
        /\ UNCHANGED <<guardKind, sizeOfT, track, clears, live, hist, watched, threads, issued, field, skipped>>

Clear(c) ==
    /\ ~Halted(c)
    /\ clears < MaxClears
    /\ \E r \in {clear(guardKind, colony[c], NEXT_COLONY_ID)} :
        /\ clears' = clears + 1
        /\ colony' = [colony EXCEPT ![c] = r.col]
        /\ NEXT_COLONY_ID' = r.next
        /\ live' = IF r.panic = "" THEN [live EXCEPT ![c] = {}] ELSE live
        /\ hist' = IF r.panic = ""
                   THEN [hist EXCEPT ![c] = [@ EXCEPT !.balance = 0,
                                                      !.removed = @ \/ live[c] # {}]]
                   ELSE hist
        /\ watched' = IF r.panic = "" THEN Dies(c, Handles(live[c]), "cleared") ELSE watched
        /\ UNCHANGED <<guardKind, sizeOfT, track, threads, issued, field, skipped>>

\* the operations of a caller of colony c that inserts the values `values`
OpsWith(c, values) ==
    \/ \E v \in values, watch \in BOOLEAN : Insert(c, v, watch)
    \/ \E h \in RemoveInputs : Remove(c, h)
    \/ \E index \in 0 .. MaxCapacity : RemoveUnchecked(c, index)
    \/ \E additional \in 0 .. MaxAdditional : Reserve(c, additional)
    \/ Clear(c)

Ops(c) == OpsWith(c, Values)

(***************************************************************************)
(* Spec: one colony of any guard.                                          *)
(***************************************************************************)
Init == InitWith(GuardKinds, ElemSizes, FALSE, {SENTINEL_COLONY_ID + 1})

Next == Ops(1)

Spec == Init /\ [][Next]_vars

(***************************************************************************)
(* SpecWatch: one colony of any guard, in a process that may have handed   *)
(* out colony ids before; the run watches one of the handles it returns.   *)
(***************************************************************************)
FirstIds == (SENTINEL_COLONY_ID + 1) .. (SENTINEL_COLONY_ID + 1 + MaxEarlierIds)

InitWatch == InitWith(GuardKinds, ElemSizes, TRUE, FirstIds)

SpecWatch == InitWatch /\ [][Next]_vars

(***************************************************************************)
(* SpecTwo: two GenerationGuard colonies; the second one only inserts.     *)
(***************************************************************************)
InitTwo == InitWith({"GenerationGuard"}, ElemSizes, TRUE, FirstIds)

NextTwo ==
    \/ Ops(1)
    \/ \E v \in Values : Insert(2, v, FALSE)

SpecTwo == InitTwo /\ [][NextTwo]_vars

(***************************************************************************)
(* SpecSame: one colony of any guard whose caller inserts one value only.  *)
(* The colony never inspects a value, so the capacities, the guards, the   *)
(* free list and the skipfield it reaches are those of Spec.               *)
(***************************************************************************)
NextSame == OpsWith(1, {MaxVal})

SpecSame == Init /\ [][NextSame]_vars

(***************************************************************************)
(* SpecGrow: one colony of any guard and of an element type of any of the  *)
(* sizes around the steps of MIN_NON_ZERO_CAP, whose caller only inserts   *)
(* and reserves.                                                           *)
(***************************************************************************)
GrowSizes == {0, 1, 2, 1024, 1025}

InitGrow == InitWith(GuardKinds, GrowSizes, FALSE, {SENTINEL_COLONY_ID + 1})

NextGrow ==
    \/ Insert(1, MaxVal, FALSE)
    \/ \E additional \in 0 .. MaxAdditional : Reserve(1, additional)

SpecGrow == InitGrow /\ [][NextGrow]_vars

(***************************************************************************)
(* SpecList: one colony of any guard and of a small element type, so that  *)
(* its first allocation has room for MaxSlots slots, whose caller inserts  *)
(* and removes only.                                                       *)
(***************************************************************************)
ListSizes == {2}

InitList == InitWith(GuardKinds, ListSizes, FALSE, {SENTINEL_COLONY_ID + 1})

NextList ==
    \/ /\ colony[1].touched < MaxSlots \/ IsSome(colony[1].next_free)
       /\ Insert(1, MaxVal, FALSE)
    \/ \E h \in RemoveInputs : Remove(1, h)
    \/ \E index \in 0 .. (MaxSlots - 1) : RemoveUnchecked(1, index)

SpecList == InitList /\ [][NextList]_vars

(***************************************************************************)
(* __new_id called by several threads at once.  fetch_update is a load of  *)
(* the counter followed by compare-exchanges until one succeeds or the     *)
(* closure returns None.  All orderings are Relaxed: a load, and the load  *)
(* of a failed exchange, may return any value of the counter that is not   *)
(* older than the last one the thread has seen; a successful exchange      *)
(* replaces the latest value, which NEXT_COLONY_ID holds.  A failed        *)
(* exchange that returns the value the thread already has (a spurious      *)
(* failure of the weak exchange) changes nothing.                          *)
(***************************************************************************)
\* the values a Relaxed load by a thread that has seen `prev` may return
Visible(prev) == prev .. NEXT_COLONY_ID

\* thread t enters __new_id: the load that starts fetch_update
NewIdLoad(t) ==
    /\ threads[t].pc = "idle"
    /\ \E id \in Visible(threads[t].prev) :
          threads' = [threads EXCEPT ![t] = [pc |-> "loaded", prev |-> id]]
    /\ UNCHANGED <<guardKind, sizeOfT, track, clears, colony, NEXT_COLONY_ID,
                   live, hist, watched, issued, field, skipped>>

\* the exchange succeeds: the counter still holds what the thread read, the
\* new value is stored and __new_id returns the previous one
NewIdExchange(t) ==
    /\ threads[t].pc = "loaded"
    /\ new_id_update(threads[t].prev).some
    /\ NEXT_COLONY_ID = threads[t].prev
    /\ NEXT_COLONY_ID' = new_id_update(threads[t].prev).value
    /\ issued' = Append(issued, threads[t].prev)
    /\ threads' = [threads EXCEPT ![t] = [pc |-> "idle", prev |-> NEXT_COLONY_ID']]
    /\ UNCHANGED <<guardKind, sizeOfT, track, clears, colony, live, hist, watched,
                   field, skipped>>

\* the exchange fails: the counter has moved on, and the thread goes round
\* the loop with the value the exchange read
NewIdRetry(t) ==
    /\ threads[t].pc = "loaded"
    /\ new_id_update(threads[t].prev).some
    /\ NEXT_COLONY_ID # threads[t].prev
    /\ \E id \in Visible(threads[t].prev) \ {threads[t].prev} :
          threads' = [threads EXCEPT ![t].prev = id]
    /\ UNCHANGED <<guardKind, sizeOfT, track, clears, colony, NEXT_COLONY_ID,
                   live, hist, watched, issued, field, skipped>>

\* the closure returns None: fetch_update returns Err and __new_id panics
NewIdPanic(t) ==
    /\ threads[t].pc = "loaded"
    /\ ~new_id_update(threads[t].prev).some
    /\ threads' = [threads EXCEPT ![t].pc = "panicked"]
    /\ UNCHANGED <<guardKind, sizeOfT, track, clears, colony, NEXT_COLONY_ID,
                   live, hist, watched, issued, field, skipped>>

InitIds == InitWith({"GenerationGuard"}, {1}, FALSE, {SENTINEL_COLONY_ID + 1})

NextIds ==
    \E t \in Threads :
        \/ NewIdLoad(t)
        \/ NewIdExchange(t)
        \/ NewIdRetry(t)
        \/ NewIdPanic(t)

SpecIds == InitIds /\ [][NextIds]_vars

(***************************************************************************)
(* The skipfield on its own, driven as the tests of skipfield.rs drive it: *)
(* skip on an index that is not skipped, unskip_leftmost on the left-most  *)
(* index of a run of skipped indices.                                      *)
(***************************************************************************)
\* Model::len() of a skipfield long enough for runs whose length does not
\* fit a cell (SkipfieldElement_MAX and more), as far as a usize of the
\* model's width can count them
LongField ==
    IF SkipfieldElement_MAX + 2 * Window <= USIZE_MAX
    THEN SkipfieldElement_MAX + 2 * Window ELSE USIZE_MAX

\* Model::len() of the skipfields of the runs
FieldSizes == {MaxField, LongField}

\* Model::new(size): size + 2 zero cells, the pointer at the second
InitField ==
    /\ guardKind = "NoGuard"
    /\ sizeOfT = 1
    /\ track = FALSE
    /\ clears = 0
    /\ colony = [c \in Colonies |-> Colony_default(guardKind)]
    /\ NEXT_COLONY_ID = SENTINEL_COLONY_ID + 1
    /\ live = [c \in Colonies |-> {}]
    /\ hist = [c \in Colonies |-> NoHist]
    /\ watched = None
    /\ threads = [t \in Threads |-> [pc |-> "idle", prev |-> SENTINEL_COLONY_ID + 1]]
    /\ issued = << >>
    /\ \E size \in FieldSizes : field = [i \in -1 .. size |-> 0]
    /\ skipped = {}

\* Model::len()
Model_len == CHOOSE n \in FieldSizes : DOMAIN field = -1 .. n

\* the indices exercised next.  In the short field, all.  In a long field
\* the indices from Window on are first skipped one after the other until
\* only Window indices are left at the end; after that, the first 2 * Window
\* indices and the last Window indices
Exercised ==
    IF Model_len = MaxField THEN 0 .. (MaxField - 1)
    ELSE IF (Model_len - Window - 1) \notin skipped
         THEN {Window + Cardinality(skipped)}
         ELSE 0 .. (2 * Window - 1) \cup (Model_len - Window) .. (Model_len - 1)

Model_skip(index) ==
    /\ index \notin skipped
    /\ skipped' = skipped \cup {index}
    /\ field' = skip(field, index).sf
    /\ UNCHANGED <<guardKind, sizeOfT, track, clears, colony, NEXT_COLONY_ID,
                   live, hist, watched, threads, issued>>

Model_unskip_leftmost(index) ==
    /\ index \in skipped
    /\ index = 0 \/ (index - 1) \notin skipped
    /\ skipped' = skipped \ {index}
    /\ field' = unskip_leftmost(field, index)
    /\ UNCHANGED <<guardKind, sizeOfT, track, clears, colony, NEXT_COLONY_ID,
                   live, hist, watched, threads, issued>>

NextField ==
    \E index \in Exercised :
        \/ Model_skip(index)
        \/ Model_unskip_leftmost(index)

SpecField == InitField /\ [][NextField]_vars

(***************************************************************************)
(* Vocabulary of the properties.                                           *)
(***************************************************************************)
\* the slots of the free list: those reached from next_free by following
\* `next`, at most touched of them
RECURSIVE FreeListFrom(_, _, _)
FreeListFrom(col, index, steps) ==
    IF ~IsSome(index) \/ steps = 0 THEN {}
    ELSE {index} \cup FreeListFrom(col, unoccupied(col, index).next, steps - 1)

FreeList(col) == FreeListFrom(col, col.next_free, col.touched)

\* the free list in its order: next_free, then the slot each `next` names.
\* One step more than touched is followed, so that a list that comes back
\* to a slot is longer than touched
RECURSIVE FreeListOrderFrom(_, _, _)
FreeListOrderFrom(col, index, steps) ==
    IF ~IsSome(index) \/ steps = 0 THEN << >>
    ELSE <<index>> \o FreeListOrderFrom(col, unoccupied(col, index).next, steps - 1)

FreeListOrder(col) == FreeListOrderFrom(col, col.next_free, col.touched + 1)

\* the slots of [0, touched) that hold no element, retired or not
VacantSlots(col) == {i \in DOMAIN col.elements : ~IsOccupiedArm(col.elements[i])}

\* the left-most slot of each maximal run of vacant slots
Heads(col) == {i \in VacantSlots(col) : (i - 1) \notin VacantSlots(col)}

\* the slots of a GenerationGuard colony that a removal has retired: vacant,
\* the counter at MAX_GENERATION
RetiredSlots(col) ==
    {i \in DOMAIN col.elements :
        ~IsOccupiedArm(col.elements[i]) /\ col.elements[i].guard = MAX_GENERATION}

\* the maximal runs of the set sk of skipped indices, as <<start, end>>
Runs(sk) ==
    LET ends == {e \in sk : (e + 1) \notin sk}
    IN  {<<st, CHOOSE e \in ends : e >= st /\ \A f \in ends : f >= st => e <= f>> :
            st \in {i \in sk : (i - 1) \notin sk}}

\* k values for an extend, neighbours being different values
SomeValues(k) == [j \in 1 .. k |-> ((j - 1) % MaxVal) + 1]

\* insert called once for each value of the sequence, in order
RECURSIVE InsertAll(_, _, _)
InsertAll(col, next_colony_id, values) ==
    IF values = << >> THEN [col |-> col, next |-> next_colony_id, panic |-> ""]
    ELSE LET i == insert(guardKind, sizeOfT, col, next_colony_id, Head(values))
         IN  IF i.panic # ""
             THEN [col |-> i.col, next |-> i.next, panic |-> i.panic]
             ELSE InsertAll(i.col, i.next, Tail(values))

\* the indices of the handles that insert returns when it is called once for
\* each value of the sequence, in order, up to a panic
RECURSIVE InsertedIndices(_, _, _)
InsertedIndices(col, next_colony_id, values) ==
    IF values = << >> THEN << >>
    ELSE LET i == insert(guardKind, sizeOfT, col, next_colony_id, Head(values))
         IN  IF i.panic # "" THEN << >>
             ELSE <<Guard__extract_index(guardKind, i.handle)>>
                      \o InsertedIndices(i.col, i.next, Tail(values))

\* the colony without its capacity: the cells of the skipfield up to touched
\* and every other field
WithoutCapacity(col) ==
    [col EXCEPT !.capacity = 0,
                !.skipfield = [i \in -1 .. col.touched |-> Cell(col.skipfield, i)]]

\* remove_unchecked called once for each index of the sequence, in order
RECURSIVE RemoveEach(_, _)
RemoveEach(col, indices) ==
    IF indices = << >> THEN col
    ELSE RemoveEach(remove_unchecked(guardKind, col, Head(indices)).col, Tail(indices))

\* the colony after five inserts and the removal of indices 1, 3 and 2
FiveLessThree(col) ==
    RemoveEach(InsertAll(col, SENTINEL_COLONY_ID + 1, SomeValues(5)).col,
               <<1, 3, 2>>)

\* a removal has retired a slot of the colony
Retired(c) == hist[c].retired

\* the reference model of the tests: the live elements as a set of
\* [index, value], and the same in ascending index order
ModelEntries(c) ==
    {[index |-> Guard__extract_index(guardKind, p[1]), value |-> p[2]] : p \in live[c]}

RECURSIVE Ascending(_)
Ascending(entries) ==
    IF entries = {} THEN << >>
    ELSE LET first == CHOOSE e \in entries : \A f \in entries : e.index <= f.index
         IN  << first >> \o Ascending(entries \ {first})

\* the slots of [0, touched) that hold an element
OccupiedIndices(col) == {i \in DOMAIN col.elements : IsOccupiedArm(col.elements[i])}

\* the indices a caller may pass: every index of the model's capacities, the
\* one after them and the largest usize
AnyIndices == 0 .. (MaxCapacity + 1) \cup {USIZE_MAX}

\* the handles a caller can make up.  A FlagGuard handle is any index.  A
\* GenerationGuard handle is any index with any non-zero word whose counter
\* bits are even: the words that inserts return and that the fuzz target
\* builds (Generation.state is private outside the fuzzing build, and the
\* fuzz target skips the odd and the zero words)
ForgedHandles(G) ==
    IF G = "GenerationGuard"
    THEN {[index |-> i, generation |-> w] :
             i \in AnyIndices,
             w \in {x \in 1 .. (Pow2(COLONY_ID_BITS + GENERATION_BITS) - 1) : x % 2 = 0}}
    ELSE AnyIndices

\* what the reference map of the tests (a HashMap from handle to value) holds
\* for a handle
Expected(c, h) ==
    IF \E p \in live[c] : p[1] = h
    THEN Some((CHOOSE p \in live[c] : p[1] = h)[2])
    ELSE None

(***************************************************************************)
(* C1: for a checked guard and while no slot has been retired, every live  *)
(* handle h that insert(v) returned gets v, remove(h) returns v, and the   *)
(* remove(h) after that returns None.                                      *)
(***************************************************************************)
C1_LiveHandleStable ==
    \A c \in Colonies :
        (guardKind # "NoGuard" /\ ~Retired(c)) =>
            \A p \in live[c] :
                LET r1 == remove(guardKind, colony[c], p[1])
                    r2 == remove(guardKind, r1.col, p[1])
                IN  /\ get(guardKind, colony[c], p[1]) = [ret |-> Some(p[2]), ub |-> FALSE]
                    /\ r1.ret = Some(p[2])
                    /\ r1.col.ub = {}
                    /\ r2.ret = None
                    /\ r2.col = r1.col

\* a live handle of a refilled slot, next to a vacant slot, after a growth
C1_Witness ==
    /\ guardKind = "GenerationGuard"
    /\ ~Retired(1)
    /\ colony[1].capacity = MaxCapacity
    /\ colony[1].len < colony[1].touched
    /\ \E p \in live[1] :
          /\ Generation_generation(p[1].generation) = 2
          /\ p[2] = MaxVal
          /\ get(guardKind, colony[1], p[1]).ret = Some(MaxVal)

(***************************************************************************)
(* C2: for every guard and while no slot has been retired, iteration       *)
(* yields exactly the live elements of the reference model, in ascending   *)
(* index order.                                                            *)
(***************************************************************************)
C2_IterationMatchesModel ==
    \A c \in Colonies :
        ~Retired(c) => Iterate(colony[c]) = Ascending(ModelEntries(c))

\* an iteration that jumps over a vacant slot
C2_Witness ==
    /\ colony[1].touched = 2
    /\ OccupiedIndices(colony[1]) = {1}
    /\ Iterate(colony[1]) = << [index |-> 1, value |-> MaxVal] >>

(***************************************************************************)
(* C3: under GenerationGuard, once remove(h) has returned an element,      *)
(* get(h) and remove(h) return None in every later state.                  *)
(***************************************************************************)
C3_RemovedHandleStaysDead ==
    (guardKind = "GenerationGuard" /\ watched.some /\ watched.value.dead = "removed") =>
        LET h == watched.value.handle
            col == colony[watched.value.c]
        IN  /\ get(guardKind, col, h).ret = None
            /\ remove(guardKind, col, h).ret = None

(***************************************************************************)
(* C4: no handle that one GenerationGuard colony returned validates in     *)
(* another GenerationGuard colony.                                         *)
(***************************************************************************)
C4_NoCrossColonyHandle ==
    guardKind = "GenerationGuard" =>
        \A c \in Colonies : \A d \in Colonies \ {c} :
            \A p \in live[c] : get(guardKind, colony[d], p[1]).ret = None

(***************************************************************************)
(* C5: under GenerationGuard, after clear() no handle returned before the  *)
(* clear validates (the first part of the claim; the others are that the   *)
(* handles returned after the clear validate and that iteration yields     *)
(* only the elements inserted after it).                                   *)
(***************************************************************************)
C5_ClearInvalidatesHandles ==
    (guardKind = "GenerationGuard" /\ watched.some /\ watched.value.epoch < clears) =>
        LET h == watched.value.handle
            col == colony[watched.value.c]
        IN  get(guardKind, col, h).ret = None

(***************************************************************************)
(* C6: a reserve that grows the colony changes only the capacity: len,     *)
(* touched, the free list, the slots, the skipfield cells of [-1, touched] *)
(* and, once allocated, the id are unchanged, and every live handle gets   *)
(* the same element as before.                                             *)
(***************************************************************************)
C6_GrowChangesOnlyCapacity ==
    \A c \in Colonies : \A additional \in 0 .. MaxAdditional :
        LET col == colony[c]
            r == reserve(guardKind, sizeOfT, col, NEXT_COLONY_ID, additional)
        IN  (col.ub = {} /\ r.panic = "" /\ r.col.capacity # col.capacity) =>
                /\ r.col.capacity >= col.len + additional
                /\ r.col.len = col.len
                /\ r.col.touched = col.touched
                /\ r.col.next_free = col.next_free
                /\ r.col.elements = col.elements
                /\ \A i \in -1 .. col.touched : r.col.skipfield[i] = col.skipfield[i]
                /\ col.capacity > 0 => r.col.id = col.id
                /\ Iterate(r.col) = Iterate(col)
                /\ guardKind # "NoGuard" =>
                      \A p \in live[c] :
                          get(guardKind, r.col, p[1]) = get(guardKind, col, p[1])

\* a growth of a colony that holds an element beside a vacant slot
C6_Witness ==
    LET col == colony[1]
        r == reserve(guardKind, sizeOfT, col, NEXT_COLONY_ID, MaxAdditional)
    IN  /\ guardKind = "GenerationGuard"
        /\ col.ub = {}
        /\ r.col.capacity > col.capacity
        /\ col.capacity > 0
        /\ col.len = 1
        /\ col.touched = 2
        /\ IsSome(col.next_free)
        /\ \E p \in live[1] : get(guardKind, r.col, p[1]).ret = Some(p[2])

(***************************************************************************)
(* C7: len equals the number of inserts minus the number of removals that  *)
(* returned an element since construction or the last clear, and equals    *)
(* the number of occupied slots of [0, touched).                           *)
(***************************************************************************)
C7_LenCountsElements ==
    \A c \in Colonies :
        colony[c].ub = {} =>
            /\ colony[c].len = hist[c].balance
            /\ colony[c].len = Cardinality(OccupiedIndices(colony[c]))
            /\ OccupiedIndices(colony[c]) \subseteq 0 .. (colony[c].touched - 1)

\* inserts, removals and a clear behind it, elements and a vacant slot in it
C7_Witness ==
    /\ clears > 0
    /\ hist[1].removed
    /\ colony[1].len = 1
    /\ colony[1].touched = 2
    /\ hist[1].balance = 1

(***************************************************************************)
(* C8: insert never returns the index of a live element nor an index      *)
(* above touched: the index is a vacant slot below touched or touched      *)
(* itself; when nothing was ever removed, the inserts return 0, 1, 2, ...  *)
(***************************************************************************)
C8_InsertIndex ==
    \A c \in Colonies : \A v \in Values :
        LET col == colony[c]
            r == insert(guardKind, sizeOfT, col, NEXT_COLONY_ID, v)
            index == Guard__extract_index(guardKind, r.handle)
        IN  (col.ub = {} /\ r.panic = "") =>
                /\ index <= col.touched
                /\ index \notin OccupiedIndices(col)
                /\ index \notin {e.index : e \in ModelEntries(c)}
                /\ index < col.touched => IsNode(col, index)
                /\ index \in OccupiedIndices(r.col)
                /\ ~hist[c].removed => index = hist[c].balance

\* an insert that takes a vacant slot below touched
C8_Witness ==
    LET col == colony[1]
        r == insert(guardKind, sizeOfT, col, NEXT_COLONY_ID, MaxVal)
    IN  /\ col.ub = {}
        /\ col.len = 1
        /\ col.touched = 2
        /\ Guard__extract_index(guardKind, r.handle) = 0
        /\ r.col.len = 2

(***************************************************************************)
(* C9: in a colony with no vacant slot, removing the element at index i    *)
(* and then inserting returns index i and leaves the capacity unchanged.   *)
(***************************************************************************)
C9_RemoveThenInsertReuses ==
    \A c \in Colonies : \A v \in Values :
        LET col == colony[c]
        IN  (col.ub = {} /\ col.len = col.touched) =>
                \A i \in OccupiedIndices(col) :
                    LET rem == remove_unchecked(guardKind, col, i)
                        ins == insert(guardKind, sizeOfT, rem.col, NEXT_COLONY_ID, v)
                    IN  /\ ins.panic = ""
                        /\ ins.col.ub = {}
                        /\ Guard__extract_index(guardKind, ins.handle) = i
                        /\ ins.col.capacity = col.capacity

(***************************************************************************)
(* C10: under GenerationGuard every handle insert returns differs from     *)
(* every handle returned earlier; under FlagGuard and NoGuard the handle   *)
(* of a reused slot equals the handle the slot had before.                 *)
(***************************************************************************)
C10_HandleUniqueness ==
    \A c \in Colonies : \A v \in Values :
        LET col == colony[c]
            r == insert(guardKind, sizeOfT, col, NEXT_COLONY_ID, v)
        IN  (col.ub = {} /\ r.panic = "" /\ watched.some) =>
                IF guardKind = "GenerationGuard"
                THEN r.handle # watched.value.handle
                ELSE (/\ watched.value.c = c
                      /\ watched.value.dead = "removed"
                      /\ Guard__extract_index(guardKind, watched.value.handle)
                            = Guard__extract_index(guardKind, r.handle))
                        => r.handle = watched.value.handle

(***************************************************************************)
(* C11: a FlagGuard colony refines a map from index to value: for every    *)
(* index, get(index) and remove(index) return Some(v) when the index holds *)
(* the live element v and None otherwise, and each slot's flag equals its  *)
(* occupancy.                                                              *)
(***************************************************************************)
C11_FlagRefinesMap ==
    guardKind = "FlagGuard" =>
        \A c \in Colonies :
            LET col == colony[c]
            IN  /\ \A index \in AnyIndices :
                      LET r == remove(guardKind, col, index)
                      IN  /\ get(guardKind, col, index)
                                = [ret |-> Expected(c, index), ub |-> FALSE]
                          /\ r.ret = Expected(c, index)
                          /\ r.col.ub = {}
                /\ \A i \in DOMAIN col.elements :
                      col.elements[i].guard = IsOccupiedArm(col.elements[i])
                /\ OccupiedIndices(col) = Handles(live[c])

\* a refilled slot beside a vacant one, below an untouched one
C11_Witness ==
    /\ guardKind = "FlagGuard"
    /\ colony[1].touched = 2
    /\ colony[1].capacity = 2
    /\ hist[1].removed
    /\ Expected(1, 0) = None
    /\ Expected(1, 1) = Some(MaxVal)
    /\ get(guardKind, colony[1], 1).ret = Some(MaxVal)
    /\ remove(guardKind, colony[1], 0).ret = None
    /\ get(guardKind, colony[1], 2).ret = None

(***************************************************************************)
(* C12: remove(h) of a checked colony with a handle that is not a live     *)
(* handle of the colony (its index is not below touched, its slot is       *)
(* vacant, its counter or its colony id differs; made-up handles included) *)
(* returns None, does not fault and leaves every field of the colony as it *)
(* was.                                                                    *)
(***************************************************************************)
C12_StaleRemoveIsNoOp ==
    guardKind # "NoGuard" =>
        \A c \in Colonies :
            colony[c].ub = {} =>
                \A h \in ForgedHandles(guardKind) \ Handles(live[c]) :
                    remove(guardKind, colony[c], h) = [col |-> colony[c], ret |-> None]

\* a made-up handle with the colony's id and an even counter that points at
\* a vacant slot, and one that points at a live slot with another counter
C12_Witness ==
    /\ guardKind = "GenerationGuard"
    /\ colony[1].ub = {}
    /\ colony[1].touched = 2
    /\ IsNode(colony[1], 0)
    /\ \E p \in live[1] :
          /\ p[1].index = 1
          /\ Generation_generation(p[1].generation) = 2
          /\ LET stale == [index |-> 1, generation |-> p[1].generation - 2]
                 vacant == [index |-> 0, generation |-> p[1].generation]
             IN  /\ remove(guardKind, colony[1], stale).ret = None
                 /\ remove(guardKind, colony[1], vacant).ret = None
                 /\ {stale, vacant} \subseteq ForgedHandles(guardKind)

(***************************************************************************)
(* C13: after reserve(n) the capacity is at least len + n and the next n   *)
(* inserts, with removals between them, leave the capacity unchanged; a    *)
(* reserve(n) with n <= capacity - len changes nothing.                    *)
(***************************************************************************)
\* the next `inserts` inserts into col, with at most `removes` removals of
\* an element anywhere between them, all leave the capacity at `capacity`
RECURSIVE InsertsKeepCapacity(_, _, _, _, _)
InsertsKeepCapacity(col, next_colony_id, capacity, inserts, removes) ==
    /\ inserts > 0 =>
          \A v \in {MaxVal} :
              LET i == insert(guardKind, sizeOfT, col, next_colony_id, v)
              IN  /\ i.panic = ""
                  /\ i.col.capacity = capacity
                  /\ InsertsKeepCapacity(i.col, i.next, capacity, inserts - 1, removes)
    /\ (inserts > 0 /\ removes > 0) =>
          \A index \in OccupiedIndices(col) :
              LET r == remove_unchecked(guardKind, col, index)
              IN  /\ r.col.capacity = capacity
                  /\ InsertsKeepCapacity(r.col, next_colony_id, capacity,
                                         inserts, removes - 1)

C13_ReserveMakesRoom ==
    \A c \in Colonies : \A n \in 0 .. MaxAdditional :
        LET col == colony[c]
            r == reserve(guardKind, sizeOfT, col, NEXT_COLONY_ID, n)
        IN  (col.ub = {} /\ r.panic = "") =>
                /\ r.col.capacity >= r.col.len + n
                /\ InsertsKeepCapacity(r.col, r.next, r.col.capacity, n, 1)
                /\ n <= col.capacity - col.len =>
                      r = [col |-> col, next |-> NEXT_COLONY_ID, panic |-> ""]

\* a reserve that grows a colony with a vacant slot, and the inserts after
\* it that fill the vacant slot and the new room
C13_Witness ==
    LET col == colony[1]
        r == reserve(guardKind, sizeOfT, col, NEXT_COLONY_ID, MaxAdditional)
        i1 == insert(guardKind, sizeOfT, r.col, r.next, MaxVal)
        i2 == insert(guardKind, sizeOfT, i1.col, i1.next, MaxVal)
    IN  /\ col.ub = {}
        /\ col.capacity > 0
        /\ col.len < col.touched
        /\ r.col.capacity > col.capacity
        /\ i2.col.capacity = r.col.capacity
        /\ i2.col.len = col.len + 2
        /\ i2.col.touched = col.touched + 1

(***************************************************************************)
(* C14: no operation decreases the capacity: remove, remove_unchecked and  *)
(* clear leave it as it is, reserve does not lower it, and insert changes  *)
(* it only when len = capacity before the insert.                          *)
(***************************************************************************)
C14_CapacityNeverDecreases ==
    \A c \in Colonies :
        LET col == colony[c]
        IN  col.ub = {} =>
                /\ \A h \in Handles(live[c]) :
                      guardKind # "NoGuard" =>
                          remove(guardKind, col, h).col.capacity = col.capacity
                /\ \A index \in OccupiedIndices(col) :
                      remove_unchecked(guardKind, col, index).col.capacity = col.capacity
                /\ clear(guardKind, col, NEXT_COLONY_ID).col.capacity = col.capacity
                /\ \A additional \in 0 .. MaxAdditional :
                      reserve(guardKind, sizeOfT, col, NEXT_COLONY_ID, additional)
                          .col.capacity >= col.capacity
                /\ \A v \in Values :
                      LET i == insert(guardKind, sizeOfT, col, NEXT_COLONY_ID, v)
                      IN  /\ i.col.capacity >= col.capacity
                          /\ i.col.capacity # col.capacity => col.len = col.capacity

\* a full colony that an insert grows and a clear and a removal do not shrink
C14_Witness ==
    LET col == colony[1]
    IN  /\ col.ub = {}
        /\ col.capacity = MaxCapacity
        /\ col.len = col.capacity
        /\ insert(guardKind, sizeOfT, col, NEXT_COLONY_ID, MaxVal).col.capacity
              > col.capacity
        /\ clear(guardKind, col, NEXT_COLONY_ID).col.capacity = col.capacity
        /\ clear(guardKind, col, NEXT_COLONY_ID).col.len = 0
        /\ remove_unchecked(guardKind, col, 0).col.capacity = col.capacity

(***************************************************************************)
(* C15: after clear() the colony is a freshly constructed colony with the  *)
(* old capacity: len = 0, touched = 0, the free list is empty, every       *)
(* skipfield cell of [-1, capacity] is zero, iteration yields nothing and  *)
(* the inserts that follow return the indices 0, 1, 2, ...                 *)
(***************************************************************************)
\* the next `inserts` inserts into col return the indices first, first + 1, ..
\* and iteration yields what they inserted
RECURSIVE InsertsCountUp(_, _, _, _)
InsertsCountUp(col, next_colony_id, first, inserts) ==
    inserts > 0 =>
        LET i == insert(guardKind, sizeOfT, col, next_colony_id, MaxVal)
        IN  /\ i.panic = ""
            /\ i.col.ub = {}
            /\ Guard__extract_index(guardKind, i.handle) = first
            /\ Iterate(i.col) = [j \in 1 .. (first + 1) |->
                                    [index |-> j - 1, value |-> MaxVal]]
            /\ InsertsCountUp(i.col, i.next, first + 1, inserts - 1)

C15_ClearGivesFreshColony ==
    \A c \in Colonies :
        LET col == colony[c]
            r == clear(guardKind, col, NEXT_COLONY_ID)
        IN  (col.ub = {} /\ r.panic = "") =>
                /\ r.col.capacity = col.capacity
                /\ r.col.len = 0
                /\ r.col.touched = 0
                /\ r.col.next_free = IndexOpt_none
                /\ \A i \in -1 .. col.capacity : r.col.skipfield[i] = 0
                /\ Iterate(r.col) = << >>
                /\ InsertsCountUp(r.col, r.next, 0, col.capacity)

(***************************************************************************)
(* C16: a reserve(additional) that has to grow makes the capacity          *)
(* max(len + additional, 2 * capacity, MIN_NON_ZERO_CAP), MIN_NON_ZERO_CAP *)
(* being 8 for elements of 1 byte, 4 for elements of at most 1024 bytes    *)
(* and 1 for larger ones.                                                  *)
(***************************************************************************)
C16_GrowthPolicy ==
    \A c \in Colonies : \A additional \in 0 .. MaxAdditional :
        LET col == colony[c]
            r == reserve(guardKind, sizeOfT, col, NEXT_COLONY_ID, additional)
            least == IF sizeOfT = 1 THEN 8 ELSE IF sizeOfT <= 1024 THEN 4 ELSE 1
        IN  (col.ub = {} /\ r.panic = "" /\ additional > col.capacity - col.len) =>
                r.col.capacity
                    = Max(Max(col.len + additional, 2 * col.capacity), least)

\* a full colony of one-byte elements at its first capacity, 8, which a
\* reserve(1) doubles
C16_Witness ==
    LET col == colony[1]
    IN  /\ sizeOfT = 1
        /\ col.capacity = 8
        /\ col.len = 8
        /\ reserve(guardKind, sizeOfT, col, NEXT_COLONY_ID, 1).col.capacity = 16

(***************************************************************************)
(* C17: reserve(additional) panics with "capacity overflow" exactly when   *)
(* len + additional exceeds isize::MAX (or overflows usize), and it panics *)
(* before it changes any field of the colony.                              *)
(***************************************************************************)
C17_CapacityOverflowPanic ==
    \A c \in Colonies : \A additional \in 0 .. USIZE_MAX :
        LET col == colony[c]
            r == reserve(guardKind, sizeOfT, col, NEXT_COLONY_ID, additional)
        IN  col.ub = {} =>
                /\ (r.panic = "capacity overflow")
                      <=> (col.len + additional > MAX_CAPACITY)
                /\ r.panic = "capacity overflow" =>
                      /\ [r.col EXCEPT !.panicked = col.panicked] = col
                      /\ r.next = NEXT_COLONY_ID

(***************************************************************************)
(* C18: an iterator over a colony of len n returns Some n times and None   *)
(* on every call after them; before each call size_hint is (r, Some(r)), r *)
(* being the number of items still to come; the indices of the handles     *)
(* returned increase strictly.                                             *)
(***************************************************************************)
C18_IteratorExactAndFused ==
    \A c \in Colonies :
        LET col == colony[c]
            n == col.len
            out == RawIter_calls(guardKind, col, RawIter_new(col), n + 2)
            index(k) == Guard__extract_index(guardKind, out[k].ret.value.handle)
        IN  col.ub = {} =>
                /\ \A k \in 1 .. n :
                      /\ out[k].ret.some
                      /\ out[k].hint = <<n - k + 1, Some(n - k + 1)>>
                /\ \A k \in (n + 1) .. (n + 2) :
                      /\ out[k].ret = None
                      /\ out[k].hint = <<0, Some(0)>>
                /\ \A k \in 1 .. (n - 1) : index(k) < index(k + 1)

\* an iteration that jumps the vacant slot 0 and stops at slot 1
C18_Witness ==
    LET col == colony[1]
        out == RawIter_calls(guardKind, col, RawIter_new(col), 3)
    IN  /\ col.ub = {}
        /\ col.len = 1
        /\ col.touched = 2
        /\ IsNode(col, 0)
        /\ out[1].hint = <<1, Some(1)>>
        /\ Guard__extract_index(guardKind, out[1].ret.value.handle) = 1
        /\ out[2].ret = None
        /\ out[3].ret = None

(***************************************************************************)
(* C19: each (handle, value) that iter() yields is the pair of an element  *)
(* that is live: the handle is the one insert returned for it, its index   *)
(* is the slot the value is in, and for a checked guard get(handle)        *)
(* returns the value.                                                      *)
(***************************************************************************)
C19_IterYieldsInsertedHandles ==
    \A c \in Colonies :
        LET col == colony[c]
            out == RawIter_calls(guardKind, col, RawIter_new(col), col.len)
        IN  col.ub = {} =>
                \A k \in 1 .. col.len :
                    LET item == out[k].ret.value
                        index == Guard__extract_index(guardKind, item.handle)
                    IN  /\ ~out[k].ub
                        /\ <<item.handle, item.value>> \in live[c]
                        /\ index \in DOMAIN col.elements
                        /\ col.elements[index].inner = [occupied |-> item.value]
                        /\ guardKind # "NoGuard" =>
                              get(guardKind, col, item.handle)
                                  = [ret |-> Some(item.value), ub |-> FALSE]

(***************************************************************************)
(* C20: when several threads call __new_id at once, every id returned is   *)
(* in [1, MAX_COLONY_ID], so never the sentinel 0, and no id is returned   *)
(* twice; the counter never goes past MAX_COLONY_ID, a call panics only    *)
(* when the counter has reached it, and from then on no call returns.      *)
(***************************************************************************)
C20_ConcurrentIdsDistinct ==
    /\ \A k \in 1 .. Len(issued) :
          /\ issued[k] \in 1 .. MAX_COLONY_ID
          /\ issued[k] # SENTINEL_COLONY_ID
          /\ \A j \in 1 .. (k - 1) : issued[j] # issued[k]
    /\ NEXT_COLONY_ID \in (SENTINEL_COLONY_ID + 1) .. MAX_COLONY_ID
    /\ \A t \in Threads :
          threads[t].pc = "panicked" => NEXT_COLONY_ID = MAX_COLONY_ID
    /\ NEXT_COLONY_ID = MAX_COLONY_ID =>
          /\ \A t \in Threads : ~ENABLED NewIdExchange(t)
          /\ \A t \in Threads :
                (threads[t].pc = "loaded" /\ threads[t].prev = NEXT_COLONY_ID)
                    => ENABLED NewIdPanic(t)

\* two threads read the same value of the counter; one exchange succeeded
\* and that thread's next call panicked, while the other thread still holds
\* the value it read
C20_Witness ==
    /\ threads[1].pc = "panicked"
    /\ threads[2].pc = "loaded"
    /\ threads[2].prev = MAX_COLONY_ID - 1
    /\ NEXT_COLONY_ID = MAX_COLONY_ID
    /\ Len(issued) = MAX_COLONY_ID - 1

(***************************************************************************)
(* C21: when the destructor of an element panics during clear(), dropping  *)
(* the colony afterwards runs the destructor of no element on which        *)
(* clear() has already run it.                                             *)
(***************************************************************************)
C21_ClearPanicLeavesSafe ==
    \A c \in Colonies :
        LET col == colony[c]
        IN  col.ub = {} =>
                \A panic_at \in 1 .. col.len :
                    LET r == clear_dropping(guardKind, col, NEXT_COLONY_ID, TRUE, panic_at)
                        again == Colony_drop(guardKind, r.col, TRUE)
                    IN  \A i \in 1 .. Len(r.drops) : \A j \in 1 .. Len(again) :
                            r.drops[i].index # again[j].index

(***************************************************************************)
(* C22: without panics, clear() and Drop run the destructor exactly once   *)
(* on each slot that holds an element and on no other slot; after clear()  *)
(* Drop destroys nothing; and remove returns the value and leaves a slot   *)
(* that neither clear() nor Drop destroys.                                 *)
(***************************************************************************)
C22_ReleasedExactlyOnce ==
    \A c \in Colonies :
        LET col == colony[c]
            cleared == clear_dropping(guardKind, col, NEXT_COLONY_ID, TRUE, 0)
            dropped == Colony_drop(guardKind, col, TRUE)
            OnceEachOccupied(of, drops) ==
                /\ \A k \in 1 .. Len(drops) : ~drops[k].ub
                /\ \A j, k \in 1 .. Len(drops) :
                      j # k => drops[j].index # drops[k].index
                /\ {drops[k].index : k \in 1 .. Len(drops)} = OccupiedIndices(of)
        IN  col.ub = {} =>
                /\ OnceEachOccupied(col, cleared.drops)
                /\ OnceEachOccupied(col, dropped)
                /\ cleared.panic = "" => Colony_drop(guardKind, cleared.col, TRUE) = << >>
                /\ \A p \in live[c] :
                      LET index == Guard__extract_index(guardKind, p[1])
                          r == IF guardKind = "NoGuard"
                               THEN Taken(remove_unchecked(guardKind, col, index))
                               ELSE remove(guardKind, col, p[1])
                      IN  /\ r.ret = Some(p[2])
                          /\ r.col.ub = {}
                          /\ OnceEachOccupied(r.col, Colony_drop(guardKind, r.col, TRUE))
                          /\ index \notin OccupiedIndices(r.col)

(***************************************************************************)
(* C23: extend with k values adds k to len and leaves the colony that k    *)
(* calls of insert with the same values leave, the same values in the same *)
(* slots, except for the capacity.                                         *)
(***************************************************************************)
C23_ExtendIsRepeatedInsert ==
    \A c \in Colonies : \A k \in 0 .. MaxAdditional : \A exact \in BOOLEAN :
        LET col == colony[c]
            e == extend(guardKind, sizeOfT, col, NEXT_COLONY_ID, SomeValues(k), exact)
            i == InsertAll(col, NEXT_COLONY_ID, SomeValues(k))
        IN  (col.ub = {} /\ i.panic = "" /\ i.col.ub = {}) =>
                /\ e.panic = ""
                /\ e.col.len = col.len + k
                /\ e.next = i.next
                /\ e.col.capacity >= i.col.len
                /\ WithoutCapacity(e.col) = WithoutCapacity(i.col)

\* an extend with two values, the first of which goes into a vacant slot and
\* the second to the end of a full colony, which has to grow
C23_Witness ==
    LET col == colony[1]
        e == extend(guardKind, sizeOfT, col, NEXT_COLONY_ID, SomeValues(2), TRUE)
    IN  /\ col.ub = {}
        /\ IsSome(col.next_free)
        /\ col.len + 1 = col.capacity
        /\ e.panic = ""
        /\ e.col.ub = {}
        /\ e.col.len = col.len + 2
        /\ e.col.capacity > col.capacity

(***************************************************************************)
(* C24: clone() of a colony reads only slots that hold an element and      *)
(* returns a colony of the same len whose values(), in order, are the      *)
(* values() of the original.                                               *)
(***************************************************************************)
C24_CloneIteratesEqually ==
    \A c \in Colonies :
        LET col == colony[c]
            r == clone(guardKind, sizeOfT, col, NEXT_COLONY_ID)
        IN  (col.ub = {} /\ r.panic = "") =>
                /\ ~r.ub
                /\ r.col.ub = {}
                /\ r.col.len = col.len
                /\ Colony_values(guardKind, r.col) = Colony_values(guardKind, col)

(***************************************************************************)
(* C25: in every reachable state len <= touched <= capacity, and no insert *)
(* has written a slot at an index >= capacity.                             *)
(***************************************************************************)
C25_LenTouchedCapacity ==
    \A c \in Colonies :
        /\ colony[c].len <= colony[c].touched
        /\ colony[c].touched <= colony[c].capacity
        /\ "out of bounds" \notin colony[c].ub

(***************************************************************************)
(* C26: under GenerationGuard a retired slot is not in the free list, the  *)
(* next insert does not return its index, and no slot has been filled      *)
(* again after its counter reached MAX_GENERATION.                         *)
(***************************************************************************)
C26_RetiredSlotNeverReused ==
    guardKind = "GenerationGuard" =>
        \A c \in Colonies :
            LET col == colony[c]
                i == insert(guardKind, sizeOfT, col, NEXT_COLONY_ID, MaxVal)
            IN  col.ub = {} =>
                    /\ RetiredSlots(col) \cap FreeList(col) = {}
                    /\ i.panic = "" =>
                          Guard__extract_index(guardKind, i.handle) \notin RetiredSlots(col)
                    /\ \A s \in DOMAIN col.elements :
                          col.elements[s].guard <= MAX_GENERATION

(***************************************************************************)
(* C27: in a colony in which a removal has retired a slot, the skipfield   *)
(* stays exact: the cell of every occupied slot reads 0, the cell at       *)
(* touched is 0, and iteration yields exactly the live elements, all       *)
(* inside [0, touched).                                                    *)
(***************************************************************************)
C27_SkipfieldExactAfterRetirement ==
    \A c \in Colonies :
        LET col == colony[c]
        IN  (Retired(c) /\ col.ub = {}) =>
                /\ \A i \in OccupiedIndices(col) : read(col.skipfield, RIGHT, i) = 0
                /\ Cell(col.skipfield, col.touched) = 0
                /\ Iterate(col) = Ascending(ModelEntries(c))
                /\ \A k \in 1 .. Len(Iterate(col)) :
                      Iterate(col)[k].index \in 0 .. (col.touched - 1)

(***************************************************************************)
(* C28: the skipfield on its own, after any sequence of skip on an index   *)
(* that is not skipped and unskip_leftmost on the left-most index of a run *)
(* from the all-zero field: for every maximal run [s, e] of skipped        *)
(* indices, reading right at s and reading left at e give e - s + 1;       *)
(* reading right at an index that is not skipped gives 0; and skip(i)      *)
(* returns the (s, e) of the run that then contains i.                     *)
(***************************************************************************)
C28_SkipfieldRuns ==
    /\ \A r \in Runs(skipped) :
          /\ read(field, RIGHT, r[1]) = r[2] - r[1] + 1
          /\ read(field, LEFT, r[2]) = r[2] - r[1] + 1
    /\ \A i \in (0 .. (Model_len - 1)) \ skipped :
          /\ read(field, RIGHT, i) = 0
          /\ LET k == skip(field, i)
             IN  /\ <<k.start, k.end>> \in Runs(skipped \cup {i})
                 /\ k.start <= i
                 /\ i <= k.end
                 /\ read(k.sf, RIGHT, k.start) = k.end - k.start + 1
                 /\ read(k.sf, LEFT, k.end) = k.end - k.start + 1

\* an index between a run on its left and a run on its right, the run that
\* skip makes of the three being too long for a cell
C28_Witness ==
    \E i \in (1 .. (Model_len - 2)) \ skipped :
        LET k == skip(field, i)
        IN  /\ (i - 1) \in skipped
            /\ (i + 1) \in skipped
            /\ k.start < i
            /\ i < k.end
            /\ k.end - k.start + 1 >= SkipfieldElement_MAX

(***************************************************************************)
(* C29: in a colony in which no slot has been retired, the skipfield cell  *)
(* at -1 and every cell of [touched, capacity] are zero, no run of skipped *)
(* slots, read at an occupied slot or at the first slot of the run, goes   *)
(* beyond touched, and iteration stays below touched.                      *)
(***************************************************************************)
C29_SentinelCellsZero ==
    \A c \in Colonies :
        LET col == colony[c]
        IN  ~Retired(c) =>
                /\ col.ub = {}
                /\ DOMAIN col.skipfield = -1 .. col.capacity
                /\ col.skipfield[-1] = 0
                /\ \A i \in col.touched .. col.capacity : col.skipfield[i] = 0
                /\ \A i \in 0 .. (col.touched - 1) :
                      (i \in OccupiedIndices(col) \/ (i - 1) \in OccupiedIndices(col)
                          \/ i = 0)
                          => i + read(col.skipfield, RIGHT, i) <= col.touched
                /\ \A k \in 1 .. Len(Iterate(col)) :
                      Iterate(col)[k].index \in 0 .. (col.touched - 1)

\* after removals, a growth and a clear: a colony refilled up to a vacant
\* last slot, the skipblock of which ends at touched
C29_Witness ==
    LET col == colony[1]
    IN  /\ ~Retired(1)
        /\ clears > 0
        /\ hist[1].removed
        /\ col.capacity = MaxCapacity
        /\ col.touched = col.capacity
        /\ col.len = col.touched - 1
        /\ read(col.skipfield, RIGHT, col.touched - 1) = 1
        /\ col.skipfield[col.touched] = 0

C31_FreeListVisitsEveryVacantSlot ==
    \A c \in Colonies :
        \A col \in {colony[c]} : \A l \in {FreeListOrder(col)} :
        \A vacant \in {VacantSlots(col)} :
            ~Retired(c) =>
                /\ col.ub = {}
                /\ Len(l) = col.touched - col.len
                /\ Cardinality(vacant) = Len(l)
                /\ {l[k] : k \in 1 .. Len(l)} = vacant
                /\ \A k \in 1 .. Len(l) :
                      /\ (l[k] + 1) \in vacant => k < Len(l) /\ l[k + 1] = l[k] + 1
                      /\ (l[k] - 1) \in vacant => k > 1 /\ l[k - 1] = l[k] - 1

\* every slot vacant, the skipblock of all of them in the list from slot 0 on
C31_Witness ==
    LET col == colony[1]
    IN  /\ ~Retired(1)
        /\ col.touched = MaxSlots
        /\ col.len = 0
        /\ FreeListOrder(col) = [k \in 1 .. MaxSlots |-> k - 1]

(***************************************************************************)
(* C32: in every reachable state of a colony without a retired slot the    *)
(* free list is a well-formed doubly linked list rooted at next_free: the  *)
(* first node's prev is none, the last node's next is none, the prev of    *)
(* the node after n is n, the list ends within touched steps (it is        *)
(* acyclic) and every node is a vacant slot.                               *)
(***************************************************************************)
C32_FreeListWellFormed ==
    \A c \in Colonies :
        \A col \in {colony[c]} : \A l \in {FreeListOrder(col)} :
            ~Retired(c) =>
                /\ col.ub = {}
                /\ Len(l) <= col.touched
                /\ \A k \in 1 .. Len(l) :
                      /\ l[k] \in 0 .. (col.touched - 1)
                      /\ ~IsOccupiedArm(col.elements[l[k]])
                      /\ col.elements[l[k]].inner.prev =
                            (IF k = 1 THEN IndexOpt_none ELSE IndexOpt_some(l[k - 1]))
                      /\ col.elements[l[k]].inner.next =
                            (IF k = Len(l) THEN IndexOpt_none ELSE IndexOpt_some(l[k + 1]))

\* two skipblocks with an occupied slot between them, the block removed last
\* at the front of the list
C32_Witness ==
    LET col == colony[1]
    IN  /\ ~Retired(1)
        /\ col.touched = MaxSlots
        /\ IsOccupiedArm(col.elements[1])
        /\ FreeListOrder(col) = <<0, MaxSlots - 1>>
        /\ col.elements[0].inner.next = IndexOpt_some(MaxSlots - 1)
        /\ col.elements[MaxSlots - 1].inner.prev = IndexOpt_some(0)

(***************************************************************************)
(* C33: whenever next_free is some index f in a colony without a retired   *)
(* slot, f is a vacant slot below touched, it is the left-most slot of its *)
(* skipblock (f = 0 or slot f - 1 holds an element) and the skipfield read *)
(* to the right at f is the length of the block: what unskip_leftmost(f),  *)
(* which insert calls, requires.                                           *)
(***************************************************************************)
C33_NextFreeIsBlockHead ==
    \A c \in Colonies :
        \A col \in {colony[c]} : \A f \in {col.next_free} :
            (~Retired(c) /\ IsSome(f)) =>
                /\ col.ub = {}
                /\ f \in VacantSlots(col)
                /\ f = 0 \/ IsOccupiedArm(col.elements[f - 1])
                /\ \E run \in Runs(VacantSlots(col)) :
                      /\ run[1] = f
                      /\ read(col.skipfield, RIGHT, f) = run[2] - f + 1

\* next_free at the head of a skipblock of two slots that follows an
\* occupied slot
C33_Witness ==
    LET col == colony[1]
    IN  /\ ~Retired(1)
        /\ col.touched = MaxSlots
        /\ col.next_free = IndexOpt_some(1)
        /\ IsOccupiedArm(col.elements[0])
        /\ VacantSlots(col) = 1 .. (MaxSlots - 1)
        /\ read(col.skipfield, RIGHT, 1) = MaxSlots - 1

(***************************************************************************)
(* C34: in every reachable state of a colony without a retired slot,       *)
(* next_free is none exactly when len = touched; so the assertion          *)
(* len < touched of insert_into_free and the assertion len = touched of    *)
(* insert_at_end_unchecked hold wherever an insert or an extend reaches    *)
(* them.                                                                   *)
(***************************************************************************)
C34_NextFreeNoneIffFull ==
    \A c \in Colonies :
        \A col \in {colony[c]} :
            ~Retired(c) =>
                /\ col.ub = {}
                /\ col.len <= col.touched
                /\ ~IsSome(col.next_free) <=> col.len = col.touched
                /\ insert_asserts(col)
                /\ \A k \in 0 .. MaxAdditional : \A exact \in BOOLEAN :
                      extend_asserts(guardKind, sizeOfT, col, NEXT_COLONY_ID,
                                     SomeValues(k), exact)

\* a colony with one vacant slot and no room after touched: an extend with
\* two values reaches the assertion of insert_into_free and then, after a
\* reserve, that of insert_at_end_unchecked
C34_Witness ==
    LET col == colony[1]
        e == extend(guardKind, sizeOfT, col, NEXT_COLONY_ID, SomeValues(2), TRUE)
    IN  /\ ~Retired(1)
        /\ IsSome(col.next_free)
        /\ col.len + 1 = col.touched
        /\ col.touched = col.capacity
        /\ e.panic = ""
        /\ e.col.touched = col.touched + 1
        /\ ~IsSome(e.col.next_free)

(***************************************************************************)
(* C35: after the removal of the element at an index i whose neighbours    *)
(* i - 1 and i + 1 are both vacant, the two skipblocks and i are one       *)
(* skipblock [start, end] at the front of the free list, wherever the two  *)
(* blocks were in the list: next_free = start, and the next insert returns *)
(* start.                                                                  *)
(***************************************************************************)
C35_JoinedBlockAtFront ==
    \A c \in Colonies :
        \A col \in {colony[c]} : \A vacant \in {VacantSlots(col)} :
            col.ub = {} =>
                \A i \in OccupiedIndices(col) :
                    ((i - 1) \in vacant /\ (i + 1) \in vacant) =>
                        \A after \in {remove_unchecked(guardKind, col, i).col} :
                        \A run \in {r \in Runs(vacant \cup {i}) : r[1] < i /\ i < r[2]} :
                            /\ after.ub = {}
                            /\ read(after.skipfield, RIGHT, run[1]) = run[2] - run[1] + 1
                            /\ read(after.skipfield, LEFT, run[2]) = run[2] - run[1] + 1
                            /\ after.next_free = IndexOpt_some(run[1])
                            /\ \A ins \in {insert(guardKind, sizeOfT, after,
                                                  NEXT_COLONY_ID, MaxVal)} :
                                  /\ ins.panic = ""
                                  /\ ins.col.ub = {}
                                  /\ Guard__extract_index(guardKind, ins.handle) = run[1]

(***************************************************************************)
(* C36: when insert reuses next_free = f and the skipblock [f, e] read at  *)
(* f has more than one slot, cell f reads 0 afterwards, the block          *)
(* [f + 1, e] that remains reads e - f at both ends and f + 1 is the new   *)
(* next_free; so successive inserts return f, f + 1, .., e in this order,  *)
(* and inserts return every vacant slot before one of them appends at      *)
(* touched.                                                                *)
(***************************************************************************)
C36_InsertFillsBlockAscending ==
    \A c \in Colonies :
        \A col \in {colony[c]} : \A f \in {col.next_free} :
            (col.ub = {} /\ IsSome(f)) =>
                \A size \in {read(col.skipfield, RIGHT, f)} :
                \A vacancies \in {col.touched - col.len} :
                \A ins \in {insert(guardKind, sizeOfT, col, NEXT_COLONY_ID, MaxVal)} :
                \A indices \in {InsertedIndices(col, NEXT_COLONY_ID,
                                                 [k \in 1 .. (vacancies + 1) |-> MaxVal])} :
                    /\ ins.panic = ""
                    /\ ins.col.ub = {}
                    /\ Guard__extract_index(guardKind, ins.handle) = f
                    /\ read(ins.col.skipfield, RIGHT, f) = 0
                    /\ size > 1 =>
                          /\ read(ins.col.skipfield, RIGHT, f + 1) = size - 1
                          /\ read(ins.col.skipfield, LEFT, f + size - 1) = size - 1
                          /\ ins.col.next_free = IndexOpt_some(f + 1)
                    /\ Len(indices) = vacancies + 1
                    /\ \A k \in 1 .. size : indices[k] = f + k - 1
                    /\ {indices[k] : k \in 1 .. vacancies} = VacantSlots(col)
                    /\ indices[vacancies + 1] = col.touched

(***************************************************************************)
(* C37: the counter of every slot of [0, touched) of a GenerationGuard     *)
(* colony is even exactly when the slot holds an element, and the guard's  *)
(* parity assertions hold wherever an operation reaches them: __fill, on   *)
(* the slot at next_free that an insert reuses, finds an odd counter;      *)
(* __empty, on a slot that holds an element, an even one; __new_handle an  *)
(* even one after the fill, in a new slot, and in every slot of            *)
(* [0, touched) at which an iteration stops to yield an element.           *)
(***************************************************************************)
C37_CounterEvenIffOccupied ==
    \A c \in Colonies :
        \A col \in {colony[c]} :
            (guardKind = "GenerationGuard" /\ col.ub = {}) =>
                /\ DOMAIN col.elements = 0 .. (col.touched - 1)
                /\ \A i \in DOMAIN col.elements :
                      /\ col.elements[i].guard % 2 = 0 <=> IsOccupiedArm(col.elements[i])
                      /\ IsOccupiedArm(col.elements[i]) =>
                            Guard__empty_assert(guardKind, col.elements[i].guard)
                /\ \A item \in {values_mut(guardKind, col)[k] : k \in 1 .. col.len} :
                      item.index \in DOMAIN col.elements =>
                          Guard__new_handle_assert(guardKind,
                                                   col.elements[item.index].guard)
                /\ IsSome(col.next_free) =>
                      /\ col.next_free \in DOMAIN col.elements
                      /\ Guard__fill_assert(guardKind, col.elements[col.next_free].guard)
                      /\ Guard__new_handle_assert(guardKind,
                             Guard__fill(guardKind, col.elements[col.next_free].guard))
                /\ Guard__new_handle_assert(guardKind, Guard__new(guardKind))

(***************************************************************************)
(* C38: in every reachable state, also after slots have retired, the       *)
(* counter of a slot packed into a handle is at most MAX_GENERATION and    *)
(* the colony id is non-zero and at most MAX_COLONY_ID, so the packing     *)
(* does not overflow into the bits of the colony id: the handle that       *)
(* insert returned for an element decodes to the id of the colony and the  *)
(* counter of the element's slot.                                          *)
(***************************************************************************)
C38_HandlePacksIdAndCounter ==
    \A c \in Colonies :
        \A col \in {colony[c]} :
            (guardKind = "GenerationGuard" /\ col.ub = {}) =>
                \A p \in live[c] :
                    /\ p[1].index \in OccupiedIndices(col)
                    /\ Generation_new_asserts(col.id, col.elements[p[1].index].guard)
                    /\ Generation_colony_id(p[1].generation) = col.id
                    /\ Generation_generation(p[1].generation)
                          = col.elements[p[1].index].guard

(***************************************************************************)
(* C39: a run of SkipfieldElement_MAX (255) or more skipped indices keeps  *)
(* its length in the spill word: after every skip and unskip_leftmost the  *)
(* cells at the two ends of such a run hold the escape byte and the spill  *)
(* words of the two ends start with the low byte of the length, the read   *)
(* to the right at its first cell and the read to the left at its last     *)
(* cell                                                                    *)
(* return the length of the run, and the step of an iteration from its     *)
(* first cell, current_index + read::<RIGHT>, lands right after its last   *)
(* cell; a shorter run holds its length in the cells themselves; every     *)
(* index that is not skipped reads 0; and unskip_leftmost at the first     *)
(* cell of a long run leaves a run one shorter that reads its length at    *)
(* both ends, also when that length is below the escape byte.              *)
(***************************************************************************)
C39_SpilledRunsKeepLength ==
    /\ \A r \in Runs(skipped) : \A size \in {r[2] - r[1] + 1} :
          /\ field[r[1]] = (IF size >= SkipfieldElement_MAX
                            THEN SkipfieldElement_MAX ELSE size)
          /\ field[r[2]] = (IF size >= SkipfieldElement_MAX
                            THEN SkipfieldElement_MAX ELSE size)
          /\ size >= SkipfieldElement_MAX =>
                /\ field[spilled_addr(RIGHT, r[1])] = size % 256
                /\ field[spilled_addr(LEFT, r[2])] = size % 256
          /\ read(field, RIGHT, r[1]) = size
          /\ read(field, LEFT, r[2]) = size
          /\ r[1] + read(field, RIGHT, r[1]) = r[2] + 1
          /\ size >= SkipfieldElement_MAX =>
                \A after \in {unskip_leftmost(field, r[1])} :
                    /\ after[r[1]] = 0
                    /\ read(after, RIGHT, r[1] + 1) = size - 1
                    /\ read(after, LEFT, r[2]) = size - 1
                    /\ \A i \in (0 .. (Model_len - 1)) \ skipped : after[i] = 0
    /\ \A i \in (0 .. (Model_len - 1)) \ skipped :
          /\ field[i] = 0
          /\ read(field, RIGHT, i) = 0
          /\ read(field, LEFT, i) = 0

\* a run of exactly SkipfieldElement_MAX indices, which a skip has made out
\* of shorter ones and the next unskip_leftmost makes shorter than the
\* escape byte
C39_Witness ==
    \E r \in Runs(skipped) :
        /\ r[2] - r[1] + 1 = SkipfieldElement_MAX
        /\ field[r[1]] = SkipfieldElement_MAX
        /\ read(unskip_leftmost(field, r[1]), RIGHT, r[1] + 1) = SkipfieldElement_MAX - 1
        /\ unskip_leftmost(field, r[1])[r[1] + 1] = SkipfieldElement_MAX - 1

====
